---- MODULE Spec2Model ----
(***************************************************************************)
(* Bookito admin frontend: the RBAC permission store (PermissionProvider), *)
(* its resolver helpers (isAdmin, hasMenuAccess, getPermissions) and the   *)
(* permission-aware sidebar filter (AppSidebar.filteredMenuItems) over the *)
(* master menu list (ALL_MENU_ITEMS).                                      *)
(***************************************************************************)
EXTENDS Integers, Sequences, FiniteSets, TLC

VARIABLES
    data,        \* PermissionProvider state `data`: Null or Some(PermissionsData)
    isLoading,   \* PermissionProvider state `isLoading`
    calls,       \* fetchPermissions() invocations in issue order: each one's position
    lastResult,  \* how the most recently completed invocation ended (history)
    user,        \* App: `session?.user ?? null`, Null or Some(number of the session)
    currentPath, \* App state `currentPath`
    isSigningOut, \* App state `isSigningOut`
    uncaught,    \* the functions a rejection has escaped from, so far (history)
    currentPage, \* DashboardPage state `currentPage`, read from the location hash
    orphans,     \* invocations that outlived their provider, per session
    sessions,    \* sessions signed in so far (history)
    gm,          \* GroupManagement: its state hooks, one field each
    gmCalls,     \* GroupManagement: its requests in issue order
    lastOp,      \* the handler of an admin screen that ran last (history)
    pm,          \* PlanManagement: its state hooks, one field each
    pmCalls,     \* PlanManagement: its requests in issue order
    um,          \* UserManagement: its state hooks, one field each
    umCalls,     \* UserManagement: its requests in issue order
    chat,        \* GeminiChat: its state hooks, one field each
    chatCalls    \* GeminiChat: its requests in issue order

\* the PermissionProvider's own state
providerVars == <<data, isLoading, calls, lastResult>>

\* the App's session and routing state
sessionVars ==
    <<user, currentPath, isSigningOut, uncaught, currentPage, orphans, sessions>>

\* GroupManagement's state
groupVars == <<gm, gmCalls>>

\* PlanManagement's state
planVars == <<pm, pmCalls>>

\* UserManagement's state
userVars == <<um, umCalls>>

\* the chat widget's state
chatVars == <<chat, chatCalls>>

\* the admin screens' and the widget's state
screenVars == <<groupVars, planVars, userVars, chatVars, lastOp>>

vars == <<providerVars, sessionVars, screenVars>>

----------------------------------------------------------------------------
(* Bounds of the model *)

\* responses of the mount fetch carry at most this many rows
\* (main-menu entries plus sub-menu items)
MaxRows == 4

\* fetchPermissions() is invoked at most this many times (mount + refetches)
\* by one provider
MaxFetches == 3

\* at most this many sign-ins
MaxSessions == 2

\* a stored group's permissions list has at most this many records
MaxRecords == 2

\* GroupManagement issues at most this many requests
MaxCalls == 3

----------------------------------------------------------------------------
(* Values *)

\* `PermissionsData | null`: null is the empty tuple, a value p is <<p>>
Null == <<>>
Some(p) == <<p>>

\* an omitted optional argument (`subMenu?: string`)
UNDEFINED == "<undefined>"

\* JavaScript truthiness of an optional string: undefined and "" are falsy
Falsy(s) == s \in {UNDEFINED, ""}

NO_PERMISSIONS == [add |-> FALSE, change |-> FALSE, delete |-> FALSE]

ALL_PERMISSIONS == [add |-> TRUE, change |-> TRUE, delete |-> TRUE]

ALL_MENU_ITEMS ==
    << [title |-> "Dashboard",
        items |-> << [title |-> "Overview", url |-> "dashboard"] >>],
       [title |-> "Properties",
        items |-> << [title |-> "Property List", url |-> "properties"],
                     [title |-> "Property Settings", url |-> "property-settings"] >>],
       [title |-> "Subscriptions",
        items |-> << [title |-> "Plans", url |-> "subscription-plans"],
                     [title |-> "Active Subscriptions", url |-> "active-subscriptions"] >>],
       [title |-> "Invoices",
        items |-> << [title |-> "Invoice List", url |-> "invoices"],
                     [title |-> "Create Invoice", url |-> "create-invoice"] >>],
       [title |-> "Payments",
        items |-> << [title |-> "Payment List", url |-> "payments"],
                     [title |-> "Payment History", url |-> "payment-history"] >>],
       [title |-> "Expenses",
        items |-> << [title |-> "Expense List", url |-> "expenses"],
                     [title |-> "Expense Categories", url |-> "expense-categories"] >>],
       [title |-> "Sales",
        items |-> << [title |-> "Sales List", url |-> "sales"],
                     [title |-> "Sales Reports", url |-> "sales-reports"] >>],
       [title |-> "Reports",
        items |-> << [title |-> "Financial Reports", url |-> "financial-reports"],
                     [title |-> "Analytics", url |-> "analytics"] >>],
       [title |-> "Team",
        items |-> << [title |-> "Users", url |-> "team-users"],
                     [title |-> "Groups", url |-> "team-groups"] >>],
       [title |-> "Settings",
        items |-> << [title |-> "General", url |-> "settings-general"],
                     [title |-> "Account", url |-> "settings-account"] >>] >>

----------------------------------------------------------------------------
(* The responses of GET /api/me/permissions that the model draws from.     *)
(* The backend is a black box: any JSON of type PermissionsData may come   *)
(* back, so entries may repeat a main_menu, name pairs outside the master  *)
(* list, come in any order and carry any of PermissionChoices.  The fields *)
(* url, groupName and groupId are never read by the resolver or the        *)
(* sidebar and are left out.                                               *)

\* main_menu names a response may use: two of the master list, one outside it
MainNames == {"Dashboard", "Team", "Legacy"}

\* menu_name values a response may use ("Overview" under "Team" is a pair
\* outside the master list)
SubNames == {"Overview", "Users", "Groups"}

\* permission flags a response may carry
PermissionChoices ==
    { NO_PERMISSIONS,
      [add |-> TRUE, change |-> FALSE, delete |-> FALSE],
      [add |-> FALSE, change |-> TRUE, delete |-> FALSE],
      ALL_PERMISSIONS }

SubMenuItem == [menu_name : SubNames, permissions : PermissionChoices]

Roles == {"admin", "user"}

\* f[1] + ... + f[k]
RECURSIVE SumTo(_, _)
SumTo(f, k) == IF k = 0 THEN 0 ELSE f[k] + SumTo(f, k - 1)

\* the sub_menu lengths of n entries that keep the response within MaxRows
Shapes(n) ==
    { lens \in [1..n -> 0..(MaxRows - n)] : n + SumTo(lens, n) <= MaxRows }

\* the MainMenu[] whose i-th entry is named mains[i] and holds the next
\* lens[i] items of flat
MkMenus(mains, lens, flat) ==
    [i \in 1..Len(mains) |->
        [main_menu |-> mains[i],
         sub_menu |-> [j \in 1..lens[i] |-> flat[SumTo(lens, i - 1) + j]]]]

\* the responses drawn on while fetches overlap and repeat: at most one entry
\* with at most one item
Responses ==
    [role : Roles,
     menus : {<<>>} \cup
             { <<[main_menu |-> m, sub_menu |-> s]>> :
                 m \in MainNames,
                 s \in {<<>>} \cup {<<x>> : x \in SubMenuItem} }]

----------------------------------------------------------------------------
(* Array helpers *)

Min(S) == CHOOSE x \in S : \A y \in S : x <= y

\* data.menus.find((m) => m.main_menu === mainMenu): the first such entry,
\* as Null or Some(entry)
FindMainEntry(menus, mainMenu) ==
    LET I == {i \in 1..Len(menus) : menus[i].main_menu = mainMenu}
    IN  IF I = {} THEN Null ELSE Some(menus[Min(I)])

\* mainEntry.sub_menu.find((s) => s.menu_name === subMenu)
FindSubEntry(sub_menu, subMenu) ==
    LET I == {i \in 1..Len(sub_menu) : sub_menu[i].menu_name = subMenu}
    IN  IF I = {} THEN Null ELSE Some(sub_menu[Min(I)])

\* mainEntry.sub_menu.some((s) => s.menu_name === subMenu)
SomeSubEntry(sub_menu, subMenu) ==
    \E i \in 1..Len(sub_menu) : sub_menu[i].menu_name = subMenu

----------------------------------------------------------------------------
(* Resolver helpers of PermissionProvider, recomputed from `data` on every *)
(* render                                                                  *)

\* a variant of isAdmin written as `data?.role !== "user"`
isAdmin_NotUser == data = Null \/ data[1].role # "user"

isAdmin == data # Null /\ data[1].role = "admin"

\* a variant of hasMenuAccess without the admin short-circuit
hasMenuAccess_NoAdmin(mainMenu, subMenu) ==
    IF data = Null THEN FALSE
    ELSE LET mainEntry == FindMainEntry(data[1].menus, mainMenu)
         IN  IF mainEntry = Null THEN FALSE
             ELSE IF Falsy(subMenu) THEN Len(mainEntry[1].sub_menu) > 0
             ELSE SomeSubEntry(mainEntry[1].sub_menu, subMenu)

\* a variant of hasMenuAccess whose main-menu check is `sub_menu.length > 1`
hasMenuAccess_OffByOne(mainMenu, subMenu) ==
    IF data = Null THEN FALSE
    ELSE IF isAdmin THEN TRUE
    ELSE LET mainEntry == FindMainEntry(data[1].menus, mainMenu)
         IN  IF mainEntry = Null THEN FALSE
             ELSE IF Falsy(subMenu) THEN Len(mainEntry[1].sub_menu) > 1
             ELSE SomeSubEntry(mainEntry[1].sub_menu, subMenu)

hasMenuAccess(mainMenu, subMenu) ==
    IF data = Null THEN FALSE
    ELSE IF isAdmin THEN TRUE
    ELSE LET mainEntry == FindMainEntry(data[1].menus, mainMenu)
         IN  IF mainEntry = Null THEN FALSE
             ELSE IF Falsy(subMenu) THEN Len(mainEntry[1].sub_menu) > 0
             ELSE SomeSubEntry(mainEntry[1].sub_menu, subMenu)

\* a variant of getPermissions that grants everything when the main menu has
\* no stored entry
getPermissions_MissingMainGrants(mainMenu, subMenu) ==
    IF data = Null THEN NO_PERMISSIONS
    ELSE IF isAdmin THEN ALL_PERMISSIONS
    ELSE LET mainEntry == FindMainEntry(data[1].menus, mainMenu)
         IN  IF mainEntry = Null THEN ALL_PERMISSIONS
             ELSE LET subEntry == FindSubEntry(mainEntry[1].sub_menu, subMenu)
                  IN  IF subEntry = Null THEN NO_PERMISSIONS
                      ELSE subEntry[1].permissions

getPermissions(mainMenu, subMenu) ==
    IF data = Null THEN NO_PERMISSIONS
    ELSE IF isAdmin THEN ALL_PERMISSIONS
    ELSE LET mainEntry == FindMainEntry(data[1].menus, mainMenu)
         IN  IF mainEntry = Null THEN NO_PERMISSIONS
             ELSE LET subEntry == FindSubEntry(mainEntry[1].sub_menu, subMenu)
                  IN  IF subEntry = Null THEN NO_PERMISSIONS
                      ELSE subEntry[1].permissions

----------------------------------------------------------------------------
(* AppSidebar.filteredMenuItems: a memo over isLoading, isAdmin and        *)
(* hasMenuAccess, so a function of the current store state                 *)

\* the sub-item object both branches build: { title, url: `#${sub.url}` }
NavSubItem(sub) == [title |-> sub.title, url |-> "#" \o sub.url]

\* a variant of NavItem that marks every entry expanded
NavItem_AllActive(item, subs) ==
    [title |-> item.title,
     url |-> "#",
     isActive |-> TRUE,
     items |-> [j \in 1..Len(subs) |-> NavSubItem(subs[j])]]

\* the entry object both branches build, with the given sub-items
NavItem(item, subs) ==
    [title |-> item.title,
     url |-> "#",
     isActive |-> (item.title = "Dashboard"),
     items |-> [j \in 1..Len(subs) |-> NavSubItem(subs[j])]]

\* a variant of filteredMenuItems without the final empty-entry filter
FilteredMenuItems_KeepsEmpty ==
    IF isLoading THEN <<>>
    ELSE IF isAdmin THEN
        [k \in 1..Len(ALL_MENU_ITEMS) |->
            NavItem(ALL_MENU_ITEMS[k], ALL_MENU_ITEMS[k].items)]
    ELSE
        LET MainOk(item) == hasMenuAccess(item.title, UNDEFINED)
            Filtered(item) ==
                LET SubOk(sub) == hasMenuAccess(item.title, sub.title)
                IN  NavItem(item, SelectSeq(item.items, SubOk))
            kept == SelectSeq(ALL_MENU_ITEMS, MainOk)
        IN  [k \in 1..Len(kept) |-> Filtered(kept[k])]

\* a variant of filteredMenuItems that walks the stored menus (in their stored
\* order) instead of the master list
FilteredMenuItems_StoredOrder ==
    IF isLoading THEN <<>>
    ELSE IF isAdmin THEN
        [k \in 1..Len(ALL_MENU_ITEMS) |->
            NavItem(ALL_MENU_ITEMS[k], ALL_MENU_ITEMS[k].items)]
    ELSE IF data = Null THEN <<>>
    ELSE
        LET Stored(m) ==
                NavItem([title |-> m.main_menu],
                        [j \in 1..Len(m.sub_menu) |->
                            [title |-> m.sub_menu[j].menu_name,
                             url |-> m.sub_menu[j].menu_name]])
            NonEmpty(item) == Len(item.items) > 0
        IN  SelectSeq([k \in 1..Len(data[1].menus) |-> Stored(data[1].menus[k])],
                      NonEmpty)

\* a variant of filteredMenuItems without the isLoading check
FilteredMenuItems_IgnoresLoading ==
    IF isAdmin THEN
        [k \in 1..Len(ALL_MENU_ITEMS) |->
            NavItem(ALL_MENU_ITEMS[k], ALL_MENU_ITEMS[k].items)]
    ELSE
        LET MainOk(item) == hasMenuAccess(item.title, UNDEFINED)
            Filtered(item) ==
                LET SubOk(sub) == hasMenuAccess(item.title, sub.title)
                IN  NavItem(item, SelectSeq(item.items, SubOk))
            NonEmpty(item) == Len(item.items) > 0
            kept == SelectSeq(ALL_MENU_ITEMS, MainOk)
        IN  SelectSeq([k \in 1..Len(kept) |-> Filtered(kept[k])], NonEmpty)

FilteredMenuItems ==
    IF isLoading THEN <<>>
    ELSE IF isAdmin THEN
        [k \in 1..Len(ALL_MENU_ITEMS) |->
            NavItem(ALL_MENU_ITEMS[k], ALL_MENU_ITEMS[k].items)]
    ELSE
        LET MainOk(item) == hasMenuAccess(item.title, UNDEFINED)
            Filtered(item) ==
                LET SubOk(sub) == hasMenuAccess(item.title, sub.title)
                IN  NavItem(item, SelectSeq(item.items, SubOk))
            NonEmpty(item) == Len(item.items) > 0
            kept == SelectSeq(ALL_MENU_ITEMS, MainOk)
        IN  SelectSeq([k \in 1..Len(kept) |-> Filtered(kept[k])], NonEmpty)

----------------------------------------------------------------------------
(* PermissionProvider: construction and fetchPermissions()                 *)

\* positions of one fetchPermissions() invocation
Stages == {"awaitFetch", "awaitJson", "done"}

NoResult == [id |-> 0, kind |-> "none", payload |-> Null, session |-> 0]

AUTH_PATH == "/"

DASHBOARD_PATH == "/dashboard"

\* per session: the invocations still outstanding when their provider was
\* unmounted, and how many of them resolved after the session had ended
NoOrphans == [s \in 1..MaxSessions |-> [pending |-> 0, resolvedLate |-> 0]]

\* App renders DashboardPage, and with it the PermissionProvider
Mounted == currentPath = DASHBOARD_PATH /\ user # Null

\* useState(null), useState(true): the provider as constructed
FreshProvider ==
    /\ data = Null
    /\ isLoading = TRUE
    /\ calls = <<>>
    /\ lastResult = NoResult

\* GroupManagement as constructed: its useState initial values
GroupManagementInit ==
    [groups |-> <<>>, isLoading |-> TRUE, error |-> Null,
     isFormOpen |-> FALSE, editingGroup |-> Null,
     formName |-> "", formDescription |-> "", formPermissions |-> <<>>,
     isSaving |-> FALSE, formError |-> Null]

\* PlanManagement as constructed: its useState initial values
PlanManagementInit ==
    [plans |-> <<>>, isLoading |-> TRUE, error |-> Null,
     isFormOpen |-> FALSE, editingPlan |-> Null,
     formFromRooms |-> <<>>, formToRooms |-> <<>>, formRatePerRoom |-> <<>>,
     isSaving |-> FALSE, formError |-> Null,
     selectedIds |-> {}, isDeleting |-> FALSE]

\* UserManagement as constructed: its useState initial values
UserManagementInit ==
    [users |-> <<>>, groups |-> <<>>, isLoading |-> TRUE, error |-> Null,
     isFormOpen |-> FALSE, editingUser |-> Null,
     formName |-> "", formEmail |-> "", formPassword |-> "",
     formRole |-> "user", formGroupId |-> "",
     isSaving |-> FALSE, formError |-> Null]

\* GeminiChat as constructed: its useState initial values
GeminiChatInit ==
    [isOpen |-> FALSE, input |-> "", messages |-> <<>>, isLoading |-> FALSE]

\* the App's own state besides the session: nothing signing out, nothing
\* uncaught
AppIdle ==
    /\ isSigningOut = FALSE
    /\ uncaught = {}

\* DashboardPage renders the screen of `page`
Rendered(page) == Mounted /\ currentPage = page

NoRow == [mainMenu |-> "", subMenu |-> "", url |-> ""]

\* lastOp: the handler's name and, for a handler of the matrix, the row and
\* field it was called with and the working copy it found
Op(name, row, field, before) ==
    [op |-> name, row |-> row, field |-> field, before |-> before]

NoOp == Op("none", NoRow, "", <<>>)

\* no admin screen has been opened
ScreensUnmounted ==
    /\ gm = GroupManagementInit
    /\ gmCalls = <<>>
    /\ pm = PlanManagementInit
    /\ pmCalls = <<>>
    /\ um = UserManagementInit
    /\ umCalls = <<>>
    /\ chat = GeminiChatInit
    /\ chatCalls = <<>>
    /\ lastOp = NoOp

\* the provider just constructed, in the dashboard of a signed-in user
Init ==
    /\ FreshProvider
    /\ user = Some(1)
    /\ currentPath = DASHBOARD_PATH
    /\ AppIdle
    /\ currentPage = "dashboard"
    /\ orphans = NoOrphans
    /\ sessions = 1
    /\ ScreensUnmounted

\* the synchronous head of fetchPermissions(): setIsLoading(true), then the
\* request is sent and the invocation suspends at `await fetch(...)`
fetchPermissions ==
    /\ Len(calls) < MaxFetches
    /\ isLoading' = TRUE
    /\ calls' = Append(calls, "awaitFetch")
    /\ UNCHANGED <<data, lastResult, sessionVars, screenVars>>

\* useEffect(() => { fetchPermissions() }, [fetchPermissions]) on mount
MountEffect ==
    /\ Len(calls) = 0
    /\ fetchPermissions

\* the context's `refetch`, called by a consumer (a StrictMode re-run of the
\* mount effect is the same call)
Refetch ==
    /\ Len(calls) > 0
    /\ fetchPermissions

\* a variant of Complete with a sequence guard: an invocation that resolves after
\* a later-issued one has resolved leaves `data` as it is
Complete_NewestWins(i, kind, response, d) ==
    /\ data' = IF \E j \in (i + 1)..Len(calls) : calls[j] = "done"
               THEN data ELSE d
    /\ isLoading' = FALSE
    /\ calls' = [calls EXCEPT ![i] = "done"]
    /\ lastResult' = [id |-> i, kind |-> kind, payload |-> response,
                      session |-> user[1]]
    /\ UNCHANGED <<sessionVars, screenVars>>

\* the state updates that end an invocation: setData(d), then the finally
\* block's setIsLoading(false)
\* (response: the parsed body the invocation received, Null if it got none)
Complete(i, kind, response, d) ==
    /\ data' = d
    /\ isLoading' = FALSE
    /\ calls' = [calls EXCEPT ![i] = "done"]
    /\ lastResult' = [id |-> i, kind |-> kind, payload |-> response,
                      session |-> user[1]]
    /\ UNCHANGED <<sessionVars, screenVars>>

\* fetch resolves with res.ok: the invocation suspends at `await res.json()`
ResponseOk(i) ==
    /\ calls[i] = "awaitFetch"
    /\ calls' = [calls EXCEPT ![i] = "awaitJson"]
    /\ UNCHANGED <<data, isLoading, lastResult, sessionVars, screenVars>>

\* res.json() resolves with the payload p: setData(json)
JsonParsed(i, p) ==
    /\ calls[i] = "awaitJson"
    /\ Complete(i, "ok", Some(p), Some(p))

\* res.json() rejects (the body is not JSON): catch { setData(null) }
JsonThrows(i) ==
    /\ calls[i] = "awaitJson"
    /\ Complete(i, "throw", Null, Null)

\* fetch resolves with !res.ok: else { setData(null) }
ResponseNotOk(i) ==
    /\ calls[i] = "awaitFetch"
    /\ Complete(i, "notOk", Null, Null)

\* a variant of FetchThrows whose catch block leaves `data` as it was
FetchThrows_KeepsData(i) ==
    /\ calls[i] = "awaitFetch"
    /\ Complete(i, "throw", Null, data)

\* fetch rejects (network error): catch { setData(null) }
FetchThrows(i) ==
    /\ calls[i] = "awaitFetch"
    /\ Complete(i, "throw", Null, Null)

\* the provider's life: the mount fetch, refetches, and their responses in
\* any interleaving
Next ==
    \/ MountEffect
    \/ Refetch
    \/ \E i \in 1..Len(calls) : ResponseOk(i)
    \/ \E i \in {j \in 1..Len(calls) : calls[j] = "awaitJson"} :
          \E p \in Responses : JsonParsed(i, p)
    \/ \E i \in 1..Len(calls) : JsonThrows(i)
    \/ \E i \in 1..Len(calls) : ResponseNotOk(i)
    \/ \E i \in 1..Len(calls) : FetchThrows(i)

Spec == Init /\ [][Next]_vars

\* the first load alone (no refetch), its response any PermissionsData of at
\* most MaxRows rows: the states the resolver and the sidebar are read in
FirstLoadParsed ==
    \E i \in {j \in 1..Len(calls) : calls[j] = "awaitJson"} :
      \E role \in Roles : \E n \in 0..MaxRows :
        \E mains \in [1..n -> MainNames] : \E lens \in Shapes(n) :
            \E flat \in [1..SumTo(lens, n) -> SubMenuItem] :
                JsonParsed(i, [role |-> role, menus |-> MkMenus(mains, lens, flat)])

NextFirstLoad ==
    \/ MountEffect
    \/ \E i \in 1..Len(calls) : ResponseOk(i)
    \/ FirstLoadParsed
    \/ \E i \in 1..Len(calls) : JsonThrows(i)
    \/ \E i \in 1..Len(calls) : ResponseNotOk(i)
    \/ \E i \in 1..Len(calls) : FetchThrows(i)

SpecFirstLoad == Init /\ [][NextFirstLoad]_vars

----------------------------------------------------------------------------
(* App: the session, the path, and the mounting of DashboardPage with its  *)
(* PermissionProvider                                                      *)

\* the payloads the session scenarios draw on: an admin, and a user with one
\* sub-menu
SessionResponses ==
    { [role |-> "admin", menus |-> <<>>],
      [role |-> "user",
       menus |-> <<[main_menu |-> "Team",
                    sub_menu |-> <<[menu_name |-> "Users",
                                    permissions |-> ALL_PERMISSIONS]>>]>>] }

\* the App as first rendered: no session user, the auth page
SessionInit ==
    /\ FreshProvider
    /\ user = Null
    /\ currentPath = AUTH_PATH
    /\ AppIdle
    /\ currentPage = "dashboard"
    /\ orphans = NoOrphans
    /\ sessions = 0
    /\ ScreensUnmounted

Outstanding == {i \in 1..Len(calls) : calls[i] # "done"}

OrphansPending == SumTo([s \in 1..MaxSessions |-> orphans[s].pending], MaxSessions)

\* App re-renders with session user u at the given path. When it stops
\* rendering DashboardPage the PermissionProvider is unmounted: its state is
\* gone and its outstanding invocations go on without it; the next
\* DashboardPage constructs a new provider.  navigate() replaces the URL by
\* the bare path, so a change of path leaves an empty location hash.
Render(u, path) ==
    /\ user' = u
    /\ currentPath' = path
    /\ currentPage' = IF path # currentPath THEN "dashboard" ELSE currentPage
    /\ IF Mounted /\ ~(path = DASHBOARD_PATH /\ u # Null)
       THEN /\ orphans' = [orphans EXCEPT ![user[1]].pending =
                                            @ + Cardinality(Outstanding)]
            /\ data' = Null
            /\ isLoading' = TRUE
            /\ calls' = <<>>
            /\ lastResult' = NoResult
       ELSE UNCHANGED <<providerVars, orphans>>
    /\ UNCHANGED screenVars

\* authClient.useSession() yields a user: a sign-in, or the session check of a
\* page load
SessionStarts ==
    /\ user = Null
    /\ sessions < MaxSessions
    /\ sessions' = sessions + 1
    /\ Render(Some(sessions + 1), currentPath)
    /\ UNCHANGED <<isSigningOut, uncaught>>

\* authClient.useSession() yields no user any more: the session was signed
\* out, has expired or failed to authenticate
SessionEnds ==
    /\ user # Null
    /\ Render(Null, currentPath)
    /\ UNCHANGED <<sessions, isSigningOut, uncaught>>

\* onSignOut up to its await, from the sidebar's "Log out" (disabled while
\* isSigningOut): setIsSigningOut(true), then signOut() is called
onSignOut ==
    /\ Mounted
    /\ ~isSigningOut
    /\ isSigningOut' = TRUE
    /\ UNCHANGED <<providerVars, user, currentPath, uncaught, currentPage,
                   orphans, sessions, screenVars>>

\* signOut() resolves without error (the session is gone): the handler
\* navigates to the auth page, finally setIsSigningOut(false)
SignOutOk ==
    /\ isSigningOut
    /\ Render(Null, AUTH_PATH)
    /\ isSigningOut' = FALSE
    /\ UNCHANGED <<sessions, uncaught>>

\* signOut() resolves with result.error: no navigation, finally
\* setIsSigningOut(false)
SignOutError ==
    /\ isSigningOut
    /\ isSigningOut' = FALSE
    /\ UNCHANGED <<providerVars, user, currentPath, uncaught, currentPage,
                   orphans, sessions, screenVars>>

\* signOut() rejects: onSignOut has a finally and no catch, so after
\* setIsSigningOut(false) the rejection leaves the handler
SignOutThrows ==
    /\ isSigningOut
    /\ isSigningOut' = FALSE
    /\ uncaught' = uncaught \cup {"onSignOut"}
    /\ UNCHANGED <<providerVars, user, currentPath, currentPage,
                   orphans, sessions, screenVars>>

\* the App effect that keeps the path in step with the session
SessionEffect ==
    /\ \/ user # Null /\ currentPath = AUTH_PATH /\ Render(user, DASHBOARD_PATH)
       \/ user = Null /\ currentPath = DASHBOARD_PATH /\ Render(user, AUTH_PATH)
    /\ UNCHANGED <<sessions, isSigningOut, uncaught>>

\* AuthPage reports a sign-in: navigate(DASHBOARD_PATH, true)
onAuthenticated ==
    /\ currentPath = AUTH_PATH
    /\ AppIdle
    /\ Render(user, DASHBOARD_PATH)
    /\ UNCHANGED <<sessions, isSigningOut, uncaught>>

\* popstate: the path follows the browser history
syncPath ==
    /\ \E path \in {AUTH_PATH, DASHBOARD_PATH} :
          path # currentPath /\ Render(user, path)
    /\ UNCHANGED <<sessions, isSigningOut, uncaught>>

\* a variant of OrphanResolves whose state setters reach the provider that is
\* mounted now
OrphanResolves_WritesStore(s) ==
    /\ orphans[s].pending > 0
    /\ orphans' = [orphans EXCEPT ![s].pending = @ - 1,
                                  ![s].resolvedLate =
                                      @ + (IF user # Some(s) THEN 1 ELSE 0)]
    /\ \E p \in SessionResponses :
          /\ data' = Some(p)
          /\ lastResult' = [id |-> 0, kind |-> "ok", payload |-> Some(p),
                            session |-> s]
    /\ isLoading' = FALSE
    /\ UNCHANGED <<calls, user, currentPath, isSigningOut, uncaught, currentPage,
                   sessions, screenVars>>

\* an invocation of an unmounted provider resolves: its setData and
\* setIsLoading address that provider's state, which is gone
OrphanResolves(s) ==
    /\ orphans[s].pending > 0
    /\ orphans' = [orphans EXCEPT ![s].pending = @ - 1,
                                  ![s].resolvedLate =
                                      @ + (IF user # Some(s) THEN 1 ELSE 0)]
    /\ UNCHANGED <<providerVars, user, currentPath, isSigningOut, uncaught,
                   currentPage, sessions, screenVars>>

\* the provider's steps, while it is mounted (invocations are capped over the
\* mounted provider and the unmounted ones together)
MountedProviderNext ==
    /\ Mounted
    /\ \/ OrphansPending + Len(calls) < MaxFetches /\ MountEffect
       \/ OrphansPending + Len(calls) < MaxFetches /\ Refetch
       \/ \E i \in 1..Len(calls) : ResponseOk(i)
       \/ \E i \in {j \in 1..Len(calls) : calls[j] = "awaitJson"} :
             \E p \in SessionResponses : JsonParsed(i, p)
       \/ \E i \in 1..Len(calls) : JsonThrows(i)
       \/ \E i \in 1..Len(calls) : ResponseNotOk(i)
       \/ \E i \in 1..Len(calls) : FetchThrows(i)

SessionNext ==
    \/ SessionStarts
    \/ SessionEnds
    \/ onSignOut
    \/ SignOutOk
    \/ SignOutError
    \/ SignOutThrows
    \/ SessionEffect
    \/ onAuthenticated
    \/ syncPath
    \/ \E s \in 1..MaxSessions : OrphanResolves(s)
    \/ MountedProviderNext

SpecSession == SessionInit /\ [][SessionNext]_vars

----------------------------------------------------------------------------
(* PermissionMatrix: toggle and toggleAll over the `permissions` it is     *)
(* given, and the GroupManagement form that owns the working copy          *)

Max(S) == CHOOSE x \in S : \A y \in S : x >= y

PermissionFields == {"canAdd", "canChange", "canDelete"}

\* the rows of the matrix the model clicks on: those of the master list's
\* "Team" entry
MatrixRows ==
    LET menu == ALL_MENU_ITEMS[CHOOSE k \in 1..Len(ALL_MENU_ITEMS) :
                                   ALL_MENU_ITEMS[k].title = "Team"]
    IN  { [mainMenu |-> menu.title, subMenu |-> menu.items[j].title,
           url |-> menu.items[j].url] : j \in 1..Len(menu.items) }

\* the record of a row with the given flags
RowRecord(row, canAdd, canChange, canDelete) ==
    [mainMenu |-> row.mainMenu, subMenu |-> row.subMenu, url |-> row.url,
     canAdd |-> canAdd, canChange |-> canChange, canDelete |-> canDelete]

\* the flags <<canAdd, canChange, canDelete>> a stored record may carry
StoredFlags ==
    { <<FALSE, FALSE, FALSE>>, <<TRUE, FALSE, FALSE>>, <<TRUE, TRUE, TRUE>> }

\* the records a stored group may hold for those rows
MenuPermissionData ==
    { [mainMenu |-> r.mainMenu, subMenu |-> r.subMenu, url |-> r.url,
       canAdd |-> c[1], canChange |-> c[2], canDelete |-> c[3]] :
         r \in MatrixRows, c \in StoredFlags }

\* the permissions lists GET /api/groups may return for a group: any records
\* in any order, a pair may repeat
StoredPermissions ==
    UNION { [1..n -> MenuPermissionData] : n \in 0..MaxRecords }

\* permMap's key: `${mainMenu}|${subMenu}`
PermKey(mainMenu, subMenu) == mainMenu \o "|" \o subMenu

\* permMap.get(key): forEach/set keeps the last record of a key
PermMapGet(permissions, key) ==
    LET hits == { k \in 1..Len(permissions) :
                    PermKey(permissions[k].mainMenu, permissions[k].subMenu) = key }
    IN  IF hits = {} THEN Null ELSE Some(permissions[Max(hits)])

\* p.mainMenu === mainMenu && p.subMenu === subMenu
Matches(p, mainMenu, subMenu) == p.mainMenu = mainMenu /\ p.subMenu = subMenu

AllFalse(p) == ~p.canAdd /\ ~p.canChange /\ ~p.canDelete

AllTrue(p) == p.canAdd /\ p.canChange /\ p.canDelete

WithoutPair(permissions, mainMenu, subMenu) ==
    LET Other(p) == ~Matches(p, mainMenu, subMenu)
    IN  SelectSeq(permissions, Other)

\* a variant of toggle that takes its create branch whatever the list holds
toggle_AlwaysAppends(permissions, mainMenu, subMenu, url, field) ==
    Append(permissions,
           [mainMenu |-> mainMenu, subMenu |-> subMenu, url |-> url,
            canAdd |-> (field = "canAdd"),
            canChange |-> (field = "canChange"),
            canDelete |-> (field = "canDelete")])

\* toggle(mainMenu, subMenu, url, field): the list it hands to onChange
toggle(permissions, mainMenu, subMenu, url, field) ==
    LET existing == PermMapGet(permissions, PermKey(mainMenu, subMenu))
    IN  IF existing # Null
        THEN LET updated ==
                    [k \in 1..Len(permissions) |->
                        IF Matches(permissions[k], mainMenu, subMenu)
                        THEN [permissions[k] EXCEPT ![field] = ~@]
                        ELSE permissions[k]]
                 found == { k \in 1..Len(updated) :
                             Matches(updated[k], mainMenu, subMenu) }
             IN  IF found # {} /\ AllFalse(updated[Min(found)])
                 THEN WithoutPair(updated, mainMenu, subMenu)
                 ELSE updated
        ELSE Append(permissions,
                    [mainMenu |-> mainMenu, subMenu |-> subMenu, url |-> url,
                     canAdd |-> (field = "canAdd"),
                     canChange |-> (field = "canChange"),
                     canDelete |-> (field = "canDelete")])

\* a variant of toggleAll that grants without removing the pair's old records
toggleAll_AppendsOnly(permissions, mainMenu, subMenu, url) ==
    LET existing == PermMapGet(permissions, PermKey(mainMenu, subMenu))
        allChecked == existing # Null /\ AllTrue(existing[1])
    IN  IF allChecked
        THEN WithoutPair(permissions, mainMenu, subMenu)
        ELSE Append(permissions,
                    [mainMenu |-> mainMenu, subMenu |-> subMenu, url |-> url,
                     canAdd |-> TRUE, canChange |-> TRUE, canDelete |-> TRUE])

\* a variant of toggleAll whose filters compare the main menu only
toggleAll_FiltersMainMenu(permissions, mainMenu, subMenu, url) ==
    LET existing == PermMapGet(permissions, PermKey(mainMenu, subMenu))
        allChecked == existing # Null /\ AllTrue(existing[1])
        OtherMenu(p) == p.mainMenu # mainMenu
        filtered == SelectSeq(permissions, OtherMenu)
    IN  IF allChecked
        THEN filtered
        ELSE Append(filtered,
                    [mainMenu |-> mainMenu, subMenu |-> subMenu, url |-> url,
                     canAdd |-> TRUE, canChange |-> TRUE, canDelete |-> TRUE])

\* a variant of toggleAll without the revoke branch
toggleAll_NeverRevokes(permissions, mainMenu, subMenu, url) ==
    Append(WithoutPair(permissions, mainMenu, subMenu),
           [mainMenu |-> mainMenu, subMenu |-> subMenu, url |-> url,
            canAdd |-> TRUE, canChange |-> TRUE, canDelete |-> TRUE])

\* toggleAll(mainMenu, subMenu, url): the list it hands to onChange
toggleAll(permissions, mainMenu, subMenu, url) ==
    LET existing == PermMapGet(permissions, PermKey(mainMenu, subMenu))
        allChecked == existing # Null /\ AllTrue(existing[1])
        filtered == WithoutPair(permissions, mainMenu, subMenu)
    IN  IF allChecked
        THEN filtered
        ELSE Append(filtered,
                    [mainMenu |-> mainMenu, subMenu |-> subMenu, url |-> url,
                     canAdd |-> TRUE, canChange |-> TRUE, canDelete |-> TRUE])

\* GroupManagement renders its header, form and list (neither the loading
\* skeleton nor the error panel)
GM_Shown == Rendered("team-groups") /\ ~gm.isLoading /\ gm.error = Null

\* openCreate, from "New Group" or "Create First Group" (both rendered only
\* while the form is closed)
GM_openCreate ==
    /\ GM_Shown
    /\ ~gm.isFormOpen
    /\ gm' = [gm EXCEPT !.editingGroup = Null,
                        !.formName = "",
                        !.formDescription = "",
                        !.formPermissions = <<>>,
                        !.formError = Null,
                        !.isFormOpen = TRUE]
    /\ lastOp' = Op("openCreate", NoRow, "", <<>>)
    /\ UNCHANGED <<providerVars, sessionVars, planVars, userVars, chatVars, gmCalls>>

\* openEdit(group), from the pencil button of a listed group
GM_openEdit(k) ==
    /\ GM_Shown
    /\ k \in 1..Len(gm.groups)
    /\ LET group == gm.groups[k]
       IN  gm' = [gm EXCEPT !.editingGroup = Some(group),
                            !.formName = group.name,
                            !.formDescription = group.description,
                            !.formPermissions =
                                [j \in 1..Len(group.permissions) |->
                                    [mainMenu |-> group.permissions[j].mainMenu,
                                     subMenu |-> group.permissions[j].subMenu,
                                     url |-> group.permissions[j].url,
                                     canAdd |-> group.permissions[j].canAdd,
                                     canChange |-> group.permissions[j].canChange,
                                     canDelete |-> group.permissions[j].canDelete]],
                            !.formError = Null,
                            !.isFormOpen = TRUE]
    /\ lastOp' = Op("openEdit", NoRow, "", <<>>)
    /\ UNCHANGED <<providerVars, sessionVars, planVars, userVars, chatVars, gmCalls>>

\* the Cancel button: setIsFormOpen(false)
GM_cancel ==
    /\ GM_Shown
    /\ gm.isFormOpen
    /\ ~gm.isSaving
    /\ gm' = [gm EXCEPT !.isFormOpen = FALSE]
    /\ lastOp' = Op("cancel", NoRow, "", <<>>)
    /\ UNCHANGED <<providerVars, sessionVars, planVars, userVars, chatVars, gmCalls>>

\* a checkbox of the matrix: toggle(...) with onChange = setFormPermissions
MatrixToggle(row, field) ==
    /\ GM_Shown
    /\ gm.isFormOpen
    /\ gm' = [gm EXCEPT !.formPermissions =
                            toggle(@, row.mainMenu, row.subMenu, row.url, field)]
    /\ lastOp' = Op("toggle", row, field, gm.formPermissions)
    /\ UNCHANGED <<providerVars, sessionVars, planVars, userVars, chatVars, gmCalls>>

\* the sub-menu name button of the matrix: toggleAll(...) with
\* onChange = setFormPermissions
MatrixToggleAll(row) ==
    /\ GM_Shown
    /\ gm.isFormOpen
    /\ gm' = [gm EXCEPT !.formPermissions =
                            toggleAll(@, row.mainMenu, row.subMenu, row.url)]
    /\ lastOp' = Op("toggleAll", row, "", gm.formPermissions)
    /\ UNCHANGED <<providerVars, sessionVars, planVars, userVars, chatVars, gmCalls>>

\* a group as GET /api/groups returns it
GroupData(id, permissions) ==
    [id |-> id, name |-> "Front Desk", description |-> "",
     permissions |-> permissions]

\* the screen with its list loaded: no group, or one group with any stored
\* permissions
MatrixInit ==
    /\ FreshProvider
    /\ user = Some(1)
    /\ currentPath = DASHBOARD_PATH
    /\ AppIdle
    /\ currentPage = "team-groups"
    /\ orphans = NoOrphans
    /\ sessions = 1
    /\ lastOp = NoOp
    /\ gmCalls = <<>>
    /\ pm = PlanManagementInit
    /\ pmCalls = <<>>
    /\ um = UserManagementInit
    /\ umCalls = <<>>
    /\ chat = GeminiChatInit
    /\ chatCalls = <<>>
    /\ \E groups \in {<<>>} \cup
                      { <<GroupData("g1", ps)>> : ps \in StoredPermissions } :
          gm = [GroupManagementInit EXCEPT !.groups = groups,
                                           !.isLoading = FALSE]

\* the group form and its matrix, over the loaded list
MatrixNext ==
    \/ GM_openCreate
    \/ \E k \in 1..Len(gm.groups) : GM_openEdit(k)
    \/ GM_cancel
    \/ \E row \in MatrixRows : \E field \in PermissionFields :
          MatrixToggle(row, field)
    \/ \E row \in MatrixRows : MatrixToggleAll(row)

SpecMatrix == MatrixInit /\ [][MatrixNext]_vars

----------------------------------------------------------------------------
(* GroupManagement: the list, the form, and their requests                 *)

Request(method, url, body) == [method |-> method, url |-> url, body |-> body]

\* a request of the screen: the function that issued it, and whether that
\* function is still suspended on it
Call(fn, request) ==
    [fn |-> fn, stage |-> "await", request |-> request, response |-> Null]

\* the call once its function has resumed (the body it sent is not kept)
Resolved(call) == [call EXCEPT !.stage = "done", !.request.body = Null]

\* the call once its function has resumed in its catch, with the `message`
\* of the response's body (or of the rejection)
Rejected(call, message) == [Resolved(call) EXCEPT !.response = Some(message)]

Awaiting(fn) ==
    { i \in 1..Len(gmCalls) : gmCalls[i].fn = fn /\ gmCalls[i].stage = "await" }

\* requests issued so far, a pending save or delete counted with the
\* fetchGroups() that follows its success
CallsReserved ==
    Len(gmCalls) + Cardinality(Awaiting("handleSave") \cup Awaiting("handleDelete"))

\* the texts the name input is given
FormNames == {"", " ", "Night Shift"}

\* formName.trim()
Trim(name) == IF name = " " THEN "" ELSE name

\* the lists GET /api/groups answers with
GroupLists ==
    LET users == CHOOSE r \in MatrixRows : r.subMenu = "Users"
        other == CHOOSE r \in MatrixRows : r.subMenu = "Groups"
        g1 == GroupData("g1", <<RowRecord(users, TRUE, FALSE, FALSE)>>)
        g2 == GroupData("g2", <<RowRecord(other, TRUE, TRUE, TRUE),
                                RowRecord(users, FALSE, TRUE, FALSE)>>)
    IN  { <<>>, <<g1>>, <<g1, g2>> }

\* the `message` of a rejected save's body
SaveMessages == {"Group name already exists", UNDEFINED}

\* the synchronous head of fetchGroups(): setIsLoading(true), then the
\* request is sent
fetchGroups(g, issued) ==
    <<[g EXCEPT !.isLoading = TRUE],
      Append(issued, Call("fetchGroups", Request("GET", "/api/groups", Null)))>>

\* useEffect(() => { fetchGroups() }, [fetchGroups]) on mount
GM_MountEffect ==
    /\ Rendered("team-groups")
    /\ Len(gmCalls) = 0
    /\ gm' = fetchGroups(gm, gmCalls)[1]
    /\ gmCalls' = fetchGroups(gm, gmCalls)[2]
    /\ lastOp' = Op("fetchGroups", NoRow, "", <<>>)
    /\ UNCHANGED <<providerVars, sessionVars, planVars, userVars, chatVars>>

\* the Retry button of the error panel
GM_Retry ==
    /\ Rendered("team-groups")
    /\ ~gm.isLoading
    /\ gm.error # Null
    /\ CallsReserved < MaxCalls
    /\ gm' = fetchGroups(gm, gmCalls)[1]
    /\ gmCalls' = fetchGroups(gm, gmCalls)[2]
    /\ lastOp' = Op("fetchGroups", NoRow, "", <<>>)
    /\ UNCHANGED <<providerVars, sessionVars, planVars, userVars, chatVars>>

\* fetchGroups resumes with an ok response whose json.data is `list`
GM_FetchGroupsOk(i, list) ==
    /\ i \in Awaiting("fetchGroups")
    /\ gm' = [gm EXCEPT !.groups = list, !.error = Null, !.isLoading = FALSE]
    /\ gmCalls' = [gmCalls EXCEPT ![i] = Resolved(@)]
    /\ lastOp' = Op("fetchGroupsOk", NoRow, "", <<>>)
    /\ UNCHANGED <<providerVars, sessionVars, planVars, userVars, chatVars>>

\* fetchGroups resumes with a non-ok response or a rejection
GM_FetchGroupsFails(i) ==
    /\ i \in Awaiting("fetchGroups")
    /\ gm' = [gm EXCEPT !.error = Some("Failed to fetch groups"),
                        !.isLoading = FALSE]
    /\ gmCalls' = [gmCalls EXCEPT ![i] = Resolved(@)]
    /\ lastOp' = Op("fetchGroupsFails", NoRow, "", <<>>)
    /\ UNCHANGED <<providerVars, sessionVars, planVars, userVars, chatVars>>

\* the name input: setFormName(e.target.value)
GM_setFormName(name) ==
    /\ GM_Shown
    /\ gm.isFormOpen
    /\ gm' = [gm EXCEPT !.formName = name]
    /\ lastOp' = Op("setFormName", NoRow, "", <<>>)
    /\ UNCHANGED <<providerVars, sessionVars, planVars, userVars, chatVars, gmCalls>>

\* the body handleSave sends
GM_SaveBody ==
    [name |-> Trim(gm.formName),
     description |-> IF Trim(gm.formDescription) = "" THEN UNDEFINED
                     ELSE Trim(gm.formDescription),
     permissions |-> gm.formPermissions]

\* a variant of GM_SaveRequest that sends only the records that differ from
\* the edited group's
GM_SaveRequest_SendsDiff ==
    LET Changed(p) ==
            gm.editingGroup = Null
            \/ \A k \in 1..Len(gm.editingGroup[1].permissions) :
                  gm.editingGroup[1].permissions[k] # p
        body == [GM_SaveBody EXCEPT
                    !.permissions = SelectSeq(gm.formPermissions, Changed)]
    IN  IF gm.editingGroup # Null
        THEN Request("PUT", "/api/groups/" \o gm.editingGroup[1].id, Some(body))
        ELSE Request("POST", "/api/groups", Some(body))

\* the request handleSave sends: PUT to the edited group, or POST
GM_SaveRequest ==
    IF gm.editingGroup # Null
    THEN Request("PUT", "/api/groups/" \o gm.editingGroup[1].id, Some(GM_SaveBody))
    ELSE Request("POST", "/api/groups", Some(GM_SaveBody))

\* handleSave up to its await, from the form's save button (disabled while
\* isSaving)
GM_handleSave ==
    /\ GM_Shown
    /\ gm.isFormOpen
    /\ ~gm.isSaving
    /\ IF Trim(gm.formName) = ""
       THEN /\ gm' = [gm EXCEPT !.formError = Some("Group name is required")]
            /\ UNCHANGED gmCalls
       ELSE /\ CallsReserved + 2 <= MaxCalls
            /\ gm' = [gm EXCEPT !.isSaving = TRUE, !.formError = Null]
            /\ gmCalls' = Append(gmCalls, Call("handleSave", GM_SaveRequest))
    /\ lastOp' = Op("handleSave", NoRow, "", <<>>)
    /\ UNCHANGED <<providerVars, sessionVars, planVars, userVars, chatVars>>

\* handleSave resumes with an ok response: setIsFormOpen(false),
\* fetchGroups(), finally setIsSaving(false)
GM_SaveOk(i) ==
    /\ i \in Awaiting("handleSave")
    /\ LET closed == [gm EXCEPT !.isFormOpen = FALSE, !.isSaving = FALSE]
           done == [gmCalls EXCEPT ![i] = Resolved(@)]
       IN  /\ gm' = fetchGroups(closed, done)[1]
           /\ gmCalls' = fetchGroups(closed, done)[2]
    /\ lastOp' = Op("saveOk", NoRow, "", <<>>)
    /\ UNCHANGED <<providerVars, sessionVars, planVars, userVars, chatVars>>

\* handleSave resumes with a non-ok response (its body's message, or the
\* default text) or a rejection: catch setFormError, finally
\* setIsSaving(false)
GM_SaveFails(i, message) ==
    /\ i \in Awaiting("handleSave")
    /\ gm' = [gm EXCEPT !.formError = Some(IF Falsy(message)
                                           THEN "Failed to save group"
                                           ELSE message),
                        !.isSaving = FALSE]
    /\ gmCalls' = [gmCalls EXCEPT ![i] = Rejected(@, message)]
    /\ lastOp' = Op("saveFails", NoRow, "", <<>>)
    /\ UNCHANGED <<providerVars, sessionVars, planVars, userVars, chatVars>>

\* handleDelete(group) up to its await, the confirmation accepted
GM_handleDelete(k) ==
    /\ GM_Shown
    /\ k \in 1..Len(gm.groups)
    /\ CallsReserved + 2 <= MaxCalls
    /\ gmCalls' = Append(gmCalls,
                         Call("handleDelete",
                              Request("DELETE", "/api/groups/" \o gm.groups[k].id,
                                      Null)))
    /\ lastOp' = Op("handleDelete", NoRow, "", <<>>)
    /\ UNCHANGED <<providerVars, sessionVars, planVars, userVars, chatVars, gm>>

\* handleDelete resumes with an ok response: fetchGroups()
GM_DeleteOk(i) ==
    /\ i \in Awaiting("handleDelete")
    /\ LET done == [gmCalls EXCEPT ![i] = Resolved(@)]
       IN  /\ gm' = fetchGroups(gm, done)[1]
           /\ gmCalls' = fetchGroups(gm, done)[2]
    /\ lastOp' = Op("deleteOk", NoRow, "", <<>>)
    /\ UNCHANGED <<providerVars, sessionVars, planVars, userVars, chatVars>>

\* handleDelete resumes with a non-ok response or a rejection: alert(...)
GM_DeleteFails(i) ==
    /\ i \in Awaiting("handleDelete")
    /\ gmCalls' = [gmCalls EXCEPT ![i] = Resolved(@)]
    /\ lastOp' = Op("deleteFails", NoRow, "", <<>>)
    /\ UNCHANGED <<providerVars, sessionVars, planVars, userVars, chatVars, gm>>

\* GroupManagement as constructed, in the dashboard of a signed-in user
GroupsInit ==
    /\ FreshProvider
    /\ user = Some(1)
    /\ currentPath = DASHBOARD_PATH
    /\ AppIdle
    /\ currentPage = "team-groups"
    /\ orphans = NoOrphans
    /\ sessions = 1
    /\ ScreensUnmounted

\* the screen's life: the list's fetches, the form, the matrix (one checkbox
\* and one row button of it), saves and deletes, and their responses in any
\* interleaving
GroupsNext ==
    \/ GM_MountEffect
    \/ GM_Retry
    \/ \E i \in 1..Len(gmCalls) : \E list \in GroupLists : GM_FetchGroupsOk(i, list)
    \/ \E i \in 1..Len(gmCalls) : GM_FetchGroupsFails(i)
    \/ GM_openCreate
    \/ \E k \in 1..Len(gm.groups) : GM_openEdit(k)
    \/ GM_cancel
    \/ \E name \in FormNames : GM_setFormName(name)
    \/ \E row \in {r \in MatrixRows : r.subMenu = "Users"} :
          MatrixToggle(row, "canAdd")
    \/ \E row \in {r \in MatrixRows : r.subMenu = "Groups"} :
          MatrixToggleAll(row)
    \/ GM_handleSave
    \/ \E i \in 1..Len(gmCalls) : GM_SaveOk(i)
    \/ \E i \in 1..Len(gmCalls) : \E message \in SaveMessages :
          GM_SaveFails(i, message)
    \/ \E k \in 1..Len(gm.groups) : GM_handleDelete(k)
    \/ \E i \in 1..Len(gmCalls) : GM_DeleteOk(i)
    \/ \E i \in 1..Len(gmCalls) : GM_DeleteFails(i)

SpecGroups == GroupsInit /\ [][GroupsNext]_vars

----------------------------------------------------------------------------
(* PlanManagement: the texts of the plan form and the numbers read from    *)
(* them.  A text is the sequence of its characters; an integer is an       *)
(* integer; a number with decimals is num / 10^scale, kept in lowest       *)
(* terms of scale; NaN is Null and a number n is Some(n).                  *)

DigitChars == <<"0", "1", "2", "3", "4", "5", "6", "7", "8", "9">>

NaN == Null

isNaN(x) == x = NaN

RECURSIVE Pow(_, _)
Pow(b, k) == IF k = 0 THEN 1 ELSE b * Pow(b, k - 1)

\* the value of character c as a digit of the radix, or -1
DigitValue(c, radix) ==
    LET ds == { d \in 1..Len(DigitChars) : DigitChars[d] = c /\ d - 1 < radix }
    IN  IF ds = {} THEN -1 ELSE (CHOOSE d \in ds : TRUE) - 1

\* how many digits of the radix the text holds from position i on
RECURSIVE DigitRun(_, _, _)
DigitRun(text, i, radix) ==
    IF i <= Len(text) /\ DigitValue(text[i], radix) >= 0
    THEN 1 + DigitRun(text, i + 1, radix)
    ELSE 0

\* the value of the k digits from position i
RECURSIVE DigitsValue(_, _, _, _)
DigitsValue(text, i, k, radix) ==
    IF k = 0 THEN 0
    ELSE DigitsValue(text, i, k - 1, radix) * radix
         + DigitValue(text[i + k - 1], radix)

\* the position after the leading white space
RECURSIVE SkipWhiteSpace(_, _)
SkipWhiteSpace(text, i) ==
    IF i <= Len(text) /\ text[i] = " " THEN SkipWhiteSpace(text, i + 1) ELSE i

\* the length of the sign at position i, and what it multiplies by
SignLen(text, i) == IF i <= Len(text) /\ text[i] \in {"+", "-"} THEN 1 ELSE 0

SignOf(text, i) == IF i <= Len(text) /\ text[i] = "-" THEN -1 ELSE 1

\* parseInt(text, radix): white space, a sign, then the longest run of
\* digits; whatever follows is ignored; NaN without a digit
parseInt(text, radix) ==
    LET s == SkipWhiteSpace(text, 1)
        d == s + SignLen(text, s)
        k == DigitRun(text, d, radix)
    IN  IF k = 0 THEN NaN
        ELSE Some(SignOf(text, s) * DigitsValue(text, d, k, radix))

\* num / 10^scale with no trailing zero decimal
RECURSIVE Decimal(_, _)
Decimal(num, scale) ==
    IF scale > 0 /\ num % 10 = 0
    THEN Decimal(num \div 10, scale - 1)
    ELSE [num |-> num, scale |-> scale]

\* parseFloat(text): white space, a sign, digits, a point with digits, an
\* exponent (only when it has a digit); whatever follows is ignored; NaN
\* without a digit before the exponent
parseFloat(text) ==
    LET s == SkipWhiteSpace(text, 1)
        d == s + SignLen(text, s)
        ik == DigitRun(text, d, 10)
        hasPoint == d + ik <= Len(text) /\ text[d + ik] = "."
        fk == IF hasPoint THEN DigitRun(text, d + ik + 1, 10) ELSE 0
        e == d + ik + (IF hasPoint THEN 1 + fk ELSE 0)
        x == e + 1 + SignLen(text, e + 1)
        xk == IF e <= Len(text) /\ text[e] \in {"e", "E"}
              THEN DigitRun(text, x, 10) ELSE 0
        exponent == SignOf(text, e + 1) * DigitsValue(text, x, xk, 10)
        mantissa == DigitsValue(text, d, ik, 10) * Pow(10, fk)
                    + DigitsValue(text, d + ik + 1, fk, 10)
        shift == exponent - fk
    IN  IF ik + fk = 0 THEN NaN
        ELSE IF shift >= 0
             THEN Some(Decimal(SignOf(text, s) * mantissa * Pow(10, shift), 0))
             ELSE Some(Decimal(SignOf(text, s) * mantissa, 0 - shift))

\* String(n) of a non-negative integer
RECURSIVE NaturalText(_)
NaturalText(n) ==
    IF n < 10 THEN <<DigitChars[n + 1]>>
    ELSE NaturalText(n \div 10) \o <<DigitChars[(n % 10) + 1]>>

\* the k decimals of a fraction n / 10^k
RECURSIVE DecimalsText(_, _)
DecimalsText(n, k) ==
    IF k = 0 THEN <<>>
    ELSE DecimalsText(n \div 10, k - 1) \o <<DigitChars[(n % 10) + 1]>>

\* String(x) of the number x.num / 10^x.scale
String(x) ==
    LET abs == IF x.num < 0 THEN 0 - x.num ELSE x.num
    IN  (IF x.num < 0 THEN <<"-">> ELSE <<>>)
        \o NaturalText(abs \div Pow(10, x.scale))
        \o (IF x.scale = 0 THEN <<>>
            ELSE <<".">> \o DecimalsText(abs % Pow(10, x.scale), x.scale))

\* the values the inputs of the form (all of type number) are given
FromRoomsTexts == { <<>>, <<"0">>, <<"1">>, <<"5">>, <<"3", ".", "7">> }

ToRoomsTexts == { <<>>, <<"3">>, <<"1", "0">>, <<"1", "e", "3">> }

RatePerRoomTexts ==
    { <<>>, <<"-", "1">>, <<"0">>, <<"5", "9", ".", "9", "9">> }

PlanData(id, fromRooms, toRooms, ratePerRoom) ==
    [id |-> id, fromRooms |-> fromRooms, toRooms |-> toRooms,
     ratePerRoom |-> ratePerRoom]

\* the lists GET /api/plans answers with
PlanLists ==
    { <<>>, <<PlanData("p1", 1, 10, Decimal(5999, 2))>> }

\* the `message` of a rejected save's body
PlanSaveMessages == {"Plan range overlaps an existing plan", UNDEFINED}

----------------------------------------------------------------------------
(* PlanManagement: the list, the form, and their requests                  *)

PM_Awaiting(fn) ==
    { i \in 1..Len(pmCalls) : pmCalls[i].fn = fn /\ pmCalls[i].stage = "await" }

\* requests issued so far, a pending save or delete counted with the
\* fetchPlans() that follows its success
PM_CallsReserved ==
    Len(pmCalls)
    + Cardinality(PM_Awaiting("handleSave") \cup PM_Awaiting("handleDelete")
                  \cup PM_Awaiting("handleBulkDelete"))

\* the synchronous head of fetchPlans(): setIsLoading(true), then the
\* request is sent
fetchPlans(p, issued) ==
    <<[p EXCEPT !.isLoading = TRUE],
      Append(issued, Call("fetchPlans", Request("GET", "/api/plans", Null)))>>

\* PlanManagement renders its header, form and list (neither the loading
\* skeleton nor the error panel)
PM_Shown ==
    Rendered("subscription-plans") /\ ~pm.isLoading /\ pm.error = Null

\* useEffect(() => { fetchPlans() }, [fetchPlans]) on mount
PM_MountEffect ==
    /\ Rendered("subscription-plans")
    /\ Len(pmCalls) = 0
    /\ pm' = fetchPlans(pm, pmCalls)[1]
    /\ pmCalls' = fetchPlans(pm, pmCalls)[2]
    /\ lastOp' = Op("plans.fetchPlans", NoRow, "", <<>>)
    /\ UNCHANGED <<providerVars, sessionVars, groupVars, userVars, chatVars>>

\* the Retry button of the error panel
PM_Retry ==
    /\ Rendered("subscription-plans")
    /\ ~pm.isLoading
    /\ pm.error # Null
    /\ PM_CallsReserved < MaxCalls
    /\ pm' = fetchPlans(pm, pmCalls)[1]
    /\ pmCalls' = fetchPlans(pm, pmCalls)[2]
    /\ lastOp' = Op("plans.fetchPlans", NoRow, "", <<>>)
    /\ UNCHANGED <<providerVars, sessionVars, groupVars, userVars, chatVars>>

\* fetchPlans resumes with an ok response whose json.data is `list`
PM_FetchPlansOk(i, list) ==
    /\ i \in PM_Awaiting("fetchPlans")
    /\ pm' = [pm EXCEPT !.plans = list, !.error = Null, !.isLoading = FALSE]
    /\ pmCalls' = [pmCalls EXCEPT ![i] = Resolved(@)]
    /\ lastOp' = Op("plans.fetchPlansOk", NoRow, "", <<>>)
    /\ UNCHANGED <<providerVars, sessionVars, groupVars, userVars, chatVars>>

\* fetchPlans resumes with a non-ok response or a rejection
PM_FetchPlansFails(i) ==
    /\ i \in PM_Awaiting("fetchPlans")
    /\ pm' = [pm EXCEPT !.error = Some("Failed to fetch plans"),
                        !.isLoading = FALSE]
    /\ pmCalls' = [pmCalls EXCEPT ![i] = Resolved(@)]
    /\ lastOp' = Op("plans.fetchPlansFails", NoRow, "", <<>>)
    /\ UNCHANGED <<providerVars, sessionVars, groupVars, userVars, chatVars>>

\* openCreate, from "New Plan" or "Create First Plan" (both rendered only
\* while the form is closed)
PM_openCreate ==
    /\ PM_Shown
    /\ ~pm.isFormOpen
    /\ pm' = [pm EXCEPT !.editingPlan = Null,
                        !.formFromRooms = <<>>,
                        !.formToRooms = <<>>,
                        !.formRatePerRoom = <<>>,
                        !.formError = Null,
                        !.isFormOpen = TRUE]
    /\ lastOp' = Op("plans.openCreate", NoRow, "", <<>>)
    /\ UNCHANGED <<providerVars, sessionVars, groupVars, userVars, chatVars, pmCalls>>

\* openEdit(plan), from the pencil button of a listed plan
PM_openEdit(k) ==
    /\ PM_Shown
    /\ k \in 1..Len(pm.plans)
    /\ LET plan == pm.plans[k]
       IN  pm' = [pm EXCEPT !.editingPlan = Some(plan),
                            !.formFromRooms = String(Decimal(plan.fromRooms, 0)),
                            !.formToRooms = String(Decimal(plan.toRooms, 0)),
                            !.formRatePerRoom = String(plan.ratePerRoom),
                            !.formError = Null,
                            !.isFormOpen = TRUE]
    /\ lastOp' = Op("plans.openEdit", NoRow, "", <<>>)
    /\ UNCHANGED <<providerVars, sessionVars, groupVars, userVars, chatVars, pmCalls>>

\* the Cancel button (disabled while isSaving): setIsFormOpen(false)
PM_cancel ==
    /\ PM_Shown
    /\ pm.isFormOpen
    /\ ~pm.isSaving
    /\ pm' = [pm EXCEPT !.isFormOpen = FALSE]
    /\ lastOp' = Op("plans.cancel", NoRow, "", <<>>)
    /\ UNCHANGED <<providerVars, sessionVars, groupVars, userVars, chatVars, pmCalls>>

\* the "From Rooms" input: setFormFromRooms(e.target.value)
PM_setFormFromRooms(text) ==
    /\ PM_Shown
    /\ pm.isFormOpen
    /\ pm' = [pm EXCEPT !.formFromRooms = text]
    /\ lastOp' = Op("plans.setFormFromRooms", NoRow, "", <<>>)
    /\ UNCHANGED <<providerVars, sessionVars, groupVars, userVars, chatVars, pmCalls>>

\* the "To Rooms" input: setFormToRooms(e.target.value)
PM_setFormToRooms(text) ==
    /\ PM_Shown
    /\ pm.isFormOpen
    /\ pm' = [pm EXCEPT !.formToRooms = text]
    /\ lastOp' = Op("plans.setFormToRooms", NoRow, "", <<>>)
    /\ UNCHANGED <<providerVars, sessionVars, groupVars, userVars, chatVars, pmCalls>>

\* the "Rate Per Room" input: setFormRatePerRoom(e.target.value)
PM_setFormRatePerRoom(text) ==
    /\ PM_Shown
    /\ pm.isFormOpen
    /\ pm' = [pm EXCEPT !.formRatePerRoom = text]
    /\ lastOp' = Op("plans.setFormRatePerRoom", NoRow, "", <<>>)
    /\ UNCHANGED <<providerVars, sessionVars, groupVars, userVars, chatVars, pmCalls>>

\* a variant of PM_FormError that asks of toRooms only that it is at least 1
PM_FormError_ToRoomsAtLeastOne(fromRooms, toRooms, ratePerRoom) ==
    IF isNaN(fromRooms) \/ fromRooms[1] < 1
    THEN Some("From rooms must be at least 1")
    ELSE IF isNaN(toRooms) \/ toRooms[1] < 1
    THEN Some("To rooms must be >= From rooms")
    ELSE IF isNaN(ratePerRoom) \/ ratePerRoom[1].num < 0
    THEN Some("Rate per room must be a valid number >= 0")
    ELSE Null

\* handleSave's checks of the parsed values, in their order: the text of
\* the first that fails, or Null
PM_FormError(fromRooms, toRooms, ratePerRoom) ==
    IF isNaN(fromRooms) \/ fromRooms[1] < 1
    THEN Some("From rooms must be at least 1")
    ELSE IF isNaN(toRooms) \/ toRooms[1] < fromRooms[1]
    THEN Some("To rooms must be >= From rooms")
    ELSE IF isNaN(ratePerRoom) \/ ratePerRoom[1].num < 0
    THEN Some("Rate per room must be a valid number >= 0")
    ELSE Null

\* the request handleSave sends: PUT to the edited plan, or POST
PM_SaveRequest(fromRooms, toRooms, ratePerRoom) ==
    LET body == [fromRooms |-> fromRooms, toRooms |-> toRooms,
                 ratePerRoom |-> ratePerRoom]
    IN  IF pm.editingPlan # Null
        THEN Request("PUT", "/api/plans/" \o pm.editingPlan[1].id, Some(body))
        ELSE Request("POST", "/api/plans", Some(body))

\* a variant of PM_handleSave whose button is never disabled
PM_handleSave_NeverDisabled ==
    /\ PM_Shown
    /\ pm.isFormOpen
    /\ LET fromRooms == parseInt(pm.formFromRooms, 10)
           toRooms == parseInt(pm.formToRooms, 10)
           ratePerRoom == parseFloat(pm.formRatePerRoom)
           failed == PM_FormError(fromRooms, toRooms, ratePerRoom)
       IN  IF failed # Null
           THEN /\ pm' = [pm EXCEPT !.formError = failed]
                /\ UNCHANGED pmCalls
           ELSE /\ Len(pmCalls) < MaxCalls
                /\ pm' = [pm EXCEPT !.isSaving = TRUE, !.formError = Null]
                /\ pmCalls' = Append(pmCalls,
                                     Call("handleSave",
                                          PM_SaveRequest(fromRooms[1], toRooms[1],
                                                         ratePerRoom[1])))
    /\ lastOp' = Op("plans.handleSave", NoRow, "", <<>>)
    /\ UNCHANGED <<providerVars, sessionVars, groupVars, userVars, chatVars>>

\* handleSave up to its await, from the form's save button (disabled while
\* isSaving)
PM_handleSave ==
    /\ PM_Shown
    /\ pm.isFormOpen
    /\ ~pm.isSaving
    /\ LET fromRooms == parseInt(pm.formFromRooms, 10)
           toRooms == parseInt(pm.formToRooms, 10)
           ratePerRoom == parseFloat(pm.formRatePerRoom)
           failed == PM_FormError(fromRooms, toRooms, ratePerRoom)
       IN  IF failed # Null
           THEN /\ pm' = [pm EXCEPT !.formError = failed]
                /\ UNCHANGED pmCalls
           ELSE /\ PM_CallsReserved + 2 <= MaxCalls
                /\ pm' = [pm EXCEPT !.isSaving = TRUE, !.formError = Null]
                /\ pmCalls' = Append(pmCalls,
                                     Call("handleSave",
                                          PM_SaveRequest(fromRooms[1], toRooms[1],
                                                         ratePerRoom[1])))
    /\ lastOp' = Op("plans.handleSave", NoRow, "", <<>>)
    /\ UNCHANGED <<providerVars, sessionVars, groupVars, userVars, chatVars>>

\* handleSave resumes with an ok response: setIsFormOpen(false),
\* fetchPlans(), finally setIsSaving(false)
PM_SaveOk(i) ==
    /\ i \in PM_Awaiting("handleSave")
    /\ LET closed == [pm EXCEPT !.isFormOpen = FALSE, !.isSaving = FALSE]
           done == [pmCalls EXCEPT ![i] = Resolved(@)]
       IN  /\ pm' = fetchPlans(closed, done)[1]
           /\ pmCalls' = fetchPlans(closed, done)[2]
    /\ lastOp' = Op("plans.saveOk", NoRow, "", <<>>)
    /\ UNCHANGED <<providerVars, sessionVars, groupVars, userVars, chatVars>>

\* handleSave resumes with a non-ok response (its body's message, or the
\* default text) or a rejection: catch setFormError, finally
\* setIsSaving(false)
PM_SaveFails(i, message) ==
    /\ i \in PM_Awaiting("handleSave")
    /\ pm' = [pm EXCEPT !.formError = Some(IF Falsy(message)
                                           THEN "Failed to save plan"
                                           ELSE message),
                        !.isSaving = FALSE]
    /\ pmCalls' = [pmCalls EXCEPT ![i] = Rejected(@, message)]
    /\ lastOp' = Op("plans.saveFails", NoRow, "", <<>>)
    /\ UNCHANGED <<providerVars, sessionVars, groupVars, userVars, chatVars>>

\* handleDelete(plan) up to its await, from the trash button of a listed
\* plan; nothing happens when the confirmation is declined
PM_handleDelete(k, confirmed) ==
    /\ PM_Shown
    /\ k \in 1..Len(pm.plans)
    /\ IF confirmed
       THEN /\ PM_CallsReserved + 2 <= MaxCalls
            /\ pmCalls' = Append(pmCalls,
                                 Call("handleDelete",
                                      Request("DELETE",
                                              "/api/plans/" \o pm.plans[k].id,
                                              Null)))
       ELSE UNCHANGED pmCalls
    /\ lastOp' = Op("plans.handleDelete", NoRow, "", <<>>)
    /\ UNCHANGED <<providerVars, sessionVars, groupVars, userVars, chatVars, pm>>

\* handleDelete resumes with an ok response: fetchPlans()
PM_DeleteOk(i) ==
    /\ i \in PM_Awaiting("handleDelete")
    /\ LET done == [pmCalls EXCEPT ![i] = Resolved(@)]
       IN  /\ pm' = fetchPlans(pm, done)[1]
           /\ pmCalls' = fetchPlans(pm, done)[2]
    /\ lastOp' = Op("plans.deleteOk", NoRow, "", <<>>)
    /\ UNCHANGED <<providerVars, sessionVars, groupVars, userVars, chatVars>>

\* a variant of PM_DeleteFails that reloads the list after the alert
PM_DeleteFails_Refetches(i) ==
    /\ i \in PM_Awaiting("handleDelete")
    /\ LET done == [pmCalls EXCEPT ![i] = Resolved(@)]
       IN  /\ pm' = fetchPlans(pm, done)[1]
           /\ pmCalls' = fetchPlans(pm, done)[2]
    /\ lastOp' = Op("plans.deleteFails", NoRow, "", <<>>)
    /\ UNCHANGED <<providerVars, sessionVars, groupVars, userVars, chatVars>>

\* handleDelete resumes with a non-ok response or a rejection: alert(...)
PM_DeleteFails(i) ==
    /\ i \in PM_Awaiting("handleDelete")
    /\ pmCalls' = [pmCalls EXCEPT ![i] = Resolved(@)]
    /\ lastOp' = Op("plans.deleteFails", NoRow, "", <<>>)
    /\ UNCHANGED <<providerVars, sessionVars, groupVars, userVars, chatVars, pm>>

\* the checkbox of a listed plan: toggleSelect(plan.id)
PM_toggleSelect(k) ==
    /\ PM_Shown
    /\ k \in 1..Len(pm.plans)
    /\ LET id == pm.plans[k].id
       IN  pm' = [pm EXCEPT !.selectedIds = IF id \in @ THEN @ \ {id}
                                                       ELSE @ \cup {id}]
    /\ lastOp' = Op("plans.toggleSelect", NoRow, "", <<>>)
    /\ UNCHANGED <<providerVars, sessionVars, groupVars, userVars, chatVars, pmCalls>>

\* the header checkbox (rendered with the table, so with a plan listed or
\* the form open): toggleSelectAll()
PM_toggleSelectAll ==
    /\ PM_Shown
    /\ Len(pm.plans) > 0 \/ pm.isFormOpen
    /\ pm' = [pm EXCEPT !.selectedIds =
                            IF Cardinality(@) = Len(pm.plans)
                            THEN {}
                            ELSE { pm.plans[k].id : k \in 1..Len(pm.plans) }]
    /\ lastOp' = Op("plans.toggleSelectAll", NoRow, "", <<>>)
    /\ UNCHANGED <<providerVars, sessionVars, groupVars, userVars, chatVars, pmCalls>>

\* handleBulkDelete up to its await, from the "Delete (n)" button (rendered
\* with a non-empty selection, disabled while isDeleting); nothing happens
\* on an empty selection or when the confirmation is declined
PM_handleBulkDelete(confirmed) ==
    /\ PM_Shown
    /\ pm.selectedIds # {}
    /\ ~pm.isDeleting
    /\ IF Cardinality(pm.selectedIds) = 0 \/ ~confirmed
       THEN UNCHANGED <<pm, pmCalls>>
       ELSE /\ PM_CallsReserved + 2 <= MaxCalls
            /\ pm' = [pm EXCEPT !.isDeleting = TRUE]
            /\ pmCalls' = Append(pmCalls,
                                 Call("handleBulkDelete",
                                      Request("POST", "/api/plans/bulk-delete",
                                              Some([ids |-> pm.selectedIds]))))
    /\ lastOp' = Op("plans.handleBulkDelete", NoRow, "", <<>>)
    /\ UNCHANGED <<providerVars, sessionVars, groupVars, userVars, chatVars>>

\* handleBulkDelete resumes with an ok response: setSelectedIds(new Set()),
\* fetchPlans(), finally setIsDeleting(false)
PM_BulkDeleteOk(i) ==
    /\ i \in PM_Awaiting("handleBulkDelete")
    /\ LET cleared == [pm EXCEPT !.selectedIds = {}, !.isDeleting = FALSE]
           done == [pmCalls EXCEPT ![i] = Resolved(@)]
       IN  /\ pm' = fetchPlans(cleared, done)[1]
           /\ pmCalls' = fetchPlans(cleared, done)[2]
    /\ lastOp' = Op("plans.bulkDeleteOk", NoRow, "", <<>>)
    /\ UNCHANGED <<providerVars, sessionVars, groupVars, userVars, chatVars>>

\* a variant of PM_BulkDeleteFails that clears the selection as a success
\* does
PM_BulkDeleteFails_ClearsSelection(i) ==
    /\ i \in PM_Awaiting("handleBulkDelete")
    /\ pm' = [pm EXCEPT !.selectedIds = {}, !.isDeleting = FALSE]
    /\ pmCalls' = [pmCalls EXCEPT ![i] = Resolved(@)]
    /\ lastOp' = Op("plans.bulkDeleteFails", NoRow, "", <<>>)
    /\ UNCHANGED <<providerVars, sessionVars, groupVars, userVars, chatVars>>

\* handleBulkDelete resumes with a non-ok response or a rejection:
\* alert(...), finally setIsDeleting(false)
PM_BulkDeleteFails(i) ==
    /\ i \in PM_Awaiting("handleBulkDelete")
    /\ pm' = [pm EXCEPT !.isDeleting = FALSE]
    /\ pmCalls' = [pmCalls EXCEPT ![i] = Resolved(@)]
    /\ lastOp' = Op("plans.bulkDeleteFails", NoRow, "", <<>>)
    /\ UNCHANGED <<providerVars, sessionVars, groupVars, userVars, chatVars>>

\* PlanManagement as constructed, in the dashboard of a signed-in user
PlansInit ==
    /\ FreshProvider
    /\ user = Some(1)
    /\ currentPath = DASHBOARD_PATH
    /\ AppIdle
    /\ currentPage = "subscription-plans"
    /\ orphans = NoOrphans
    /\ sessions = 1
    /\ ScreensUnmounted

\* the screen's life: the list's fetches, the form and its inputs, saves,
\* and their responses in any interleaving
PlansNext ==
    \/ PM_MountEffect
    \/ PM_Retry
    \/ \E i \in 1..Len(pmCalls) : \E list \in PlanLists : PM_FetchPlansOk(i, list)
    \/ \E i \in 1..Len(pmCalls) : PM_FetchPlansFails(i)
    \/ PM_openCreate
    \/ \E k \in 1..Len(pm.plans) : PM_openEdit(k)
    \/ PM_cancel
    \/ \E text \in FromRoomsTexts : PM_setFormFromRooms(text)
    \/ \E text \in ToRoomsTexts : PM_setFormToRooms(text)
    \/ \E text \in RatePerRoomTexts : PM_setFormRatePerRoom(text)
    \/ PM_handleSave
    \/ \E i \in 1..Len(pmCalls) : PM_SaveOk(i)
    \/ \E i \in 1..Len(pmCalls) : \E message \in PlanSaveMessages :
          PM_SaveFails(i, message)

SpecPlans == PlansInit /\ [][PlansNext]_vars

\* the lists GET /api/plans answers with, of up to two plans
PlanTables ==
    PlanLists \cup { <<PlanData("p1", 1, 10, Decimal(5999, 2)),
                       PlanData("p2", 11, 20, Decimal(455, 1))>> }

\* the screen's life with its form left closed: the list's fetches, the
\* selection, deletes and bulk deletes, and their responses in any
\* interleaving
PlanListNext ==
    \/ PM_MountEffect
    \/ PM_Retry
    \/ \E i \in 1..Len(pmCalls) : \E list \in PlanTables : PM_FetchPlansOk(i, list)
    \/ \E i \in 1..Len(pmCalls) : PM_FetchPlansFails(i)
    \/ \E k \in 1..Len(pm.plans) : PM_toggleSelect(k)
    \/ PM_toggleSelectAll
    \/ \E k \in 1..Len(pm.plans) : \E confirmed \in BOOLEAN :
          PM_handleDelete(k, confirmed)
    \/ \E i \in 1..Len(pmCalls) : PM_DeleteOk(i)
    \/ \E i \in 1..Len(pmCalls) : PM_DeleteFails(i)
    \/ \E confirmed \in BOOLEAN : PM_handleBulkDelete(confirmed)
    \/ \E i \in 1..Len(pmCalls) : PM_BulkDeleteOk(i)
    \/ \E i \in 1..Len(pmCalls) : PM_BulkDeleteFails(i)

SpecPlanList == PlansInit /\ [][PlanListNext]_vars

\* the whole screen's life, its form given one text per input (and the
\* empty text for "To Rooms")
PlanScreenNext ==
    \/ PM_MountEffect
    \/ PM_Retry
    \/ \E i \in 1..Len(pmCalls) : \E list \in PlanLists : PM_FetchPlansOk(i, list)
    \/ \E i \in 1..Len(pmCalls) : PM_FetchPlansFails(i)
    \/ PM_openCreate
    \/ \E k \in 1..Len(pm.plans) : PM_openEdit(k)
    \/ PM_cancel
    \/ PM_setFormFromRooms(<<"1">>)
    \/ \E text \in {<<>>, <<"3">>} : PM_setFormToRooms(text)
    \/ PM_setFormRatePerRoom(<<"0">>)
    \/ PM_handleSave
    \/ \E i \in 1..Len(pmCalls) : PM_SaveOk(i)
    \/ \E i \in 1..Len(pmCalls) : \E message \in PlanSaveMessages :
          PM_SaveFails(i, message)
    \/ \E k \in 1..Len(pm.plans) : PM_toggleSelect(k)
    \/ PM_toggleSelectAll
    \/ \E k \in 1..Len(pm.plans) : \E confirmed \in BOOLEAN :
          PM_handleDelete(k, confirmed)
    \/ \E i \in 1..Len(pmCalls) : PM_DeleteOk(i)
    \/ \E i \in 1..Len(pmCalls) : PM_DeleteFails(i)
    \/ \E confirmed \in BOOLEAN : PM_handleBulkDelete(confirmed)
    \/ \E i \in 1..Len(pmCalls) : PM_BulkDeleteOk(i)
    \/ \E i \in 1..Len(pmCalls) : PM_BulkDeleteFails(i)

SpecPlanScreen == PlansInit /\ [][PlanScreenNext]_vars

----------------------------------------------------------------------------
(* UserManagement: the list, the form, and their requests                  *)

UserData(id, name, email, role, groupId) ==
    [id |-> id, name |-> name, email |-> email, role |-> role,
     groupId |-> groupId]

GroupInfo(id, name) == [id |-> id, name |-> name]

\* the users GET /api/users answers with
UserLists ==
    { <<>>, <<UserData("u1", "Asha", "asha@bookito.test", "user", Some("g1"))>> }

\* the groups GET /api/groups answers with, mapped to {id, name}
GroupInfoLists == { <<>>, <<GroupInfo("g1", "Front Desk")>> }

\* the texts the form's inputs and selects are given
UserNames == {"", "Asha"}

UserEmails == {"", "asha@bookito.test"}

UserPasswords == {"", "abc", "secret1"}

UserRoles == {"admin", "user"}

UserGroupIds == {"", "g1"}

\* the texts fetchData's catch stores
FetchDataMessages == {"Failed to fetch users", "Failed to fetch groups"}

\* the `message` of a rejected save's body
UserSaveMessages == {"Email already exists", UNDEFINED}

UM_Awaiting(fn) ==
    { i \in 1..Len(umCalls) : umCalls[i].fn = fn /\ umCalls[i].stage = "await" }

\* requests issued so far, a pending save or delete counted with the
\* fetchData() that follows its success
UM_CallsReserved ==
    Len(umCalls)
    + Cardinality(UM_Awaiting("handleSave") \cup UM_Awaiting("handleDelete"))

\* the synchronous head of fetchData(): setIsLoading(true), then the two
\* requests (users, with groups alongside) are sent and awaited together
fetchData(u, issued) ==
    <<[u EXCEPT !.isLoading = TRUE],
      Append(issued, Call("fetchData", Request("GET", "/api/users", Null)))>>

\* UserManagement renders its header, form and list (neither the loading
\* skeleton nor the error panel)
UM_Shown == Rendered("team-users") /\ ~um.isLoading /\ um.error = Null

\* useEffect(() => { fetchData() }, [fetchData]) on mount
UM_MountEffect ==
    /\ Rendered("team-users")
    /\ Len(umCalls) = 0
    /\ um' = fetchData(um, umCalls)[1]
    /\ umCalls' = fetchData(um, umCalls)[2]
    /\ lastOp' = Op("users.fetchData", NoRow, "", <<>>)
    /\ UNCHANGED <<providerVars, sessionVars, groupVars, planVars, chatVars>>

\* the Retry button of the error panel
UM_Retry ==
    /\ Rendered("team-users")
    /\ ~um.isLoading
    /\ um.error # Null
    /\ UM_CallsReserved < MaxCalls
    /\ um' = fetchData(um, umCalls)[1]
    /\ umCalls' = fetchData(um, umCalls)[2]
    /\ lastOp' = Op("users.fetchData", NoRow, "", <<>>)
    /\ UNCHANGED <<providerVars, sessionVars, groupVars, planVars, chatVars>>

\* fetchData resumes with two ok responses
UM_FetchDataOk(i, users, groups) ==
    /\ i \in UM_Awaiting("fetchData")
    /\ um' = [um EXCEPT !.users = users, !.groups = groups, !.error = Null,
                        !.isLoading = FALSE]
    /\ umCalls' = [umCalls EXCEPT ![i] = Resolved(@)]
    /\ lastOp' = Op("users.fetchDataOk", NoRow, "", <<>>)
    /\ UNCHANGED <<providerVars, sessionVars, groupVars, planVars, chatVars>>

\* fetchData resumes with a non-ok response or a rejection
UM_FetchDataFails(i, message) ==
    /\ i \in UM_Awaiting("fetchData")
    /\ um' = [um EXCEPT !.error = Some(message), !.isLoading = FALSE]
    /\ umCalls' = [umCalls EXCEPT ![i] = Resolved(@)]
    /\ lastOp' = Op("users.fetchDataFails", NoRow, "", <<>>)
    /\ UNCHANGED <<providerVars, sessionVars, groupVars, planVars, chatVars>>

\* openCreate, from "New User" or the empty list's button (both rendered
\* only while the form is closed)
UM_openCreate ==
    /\ UM_Shown
    /\ ~um.isFormOpen
    /\ um' = [um EXCEPT !.editingUser = Null,
                        !.formName = "",
                        !.formEmail = "",
                        !.formPassword = "",
                        !.formRole = "user",
                        !.formGroupId = "",
                        !.formError = Null,
                        !.isFormOpen = TRUE]
    /\ lastOp' = Op("users.openCreate", NoRow, "", <<>>)
    /\ UNCHANGED <<providerVars, sessionVars, groupVars, planVars, chatVars, umCalls>>

\* openEdit(user), from the pencil button of a listed user
UM_openEdit(k) ==
    /\ UM_Shown
    /\ k \in 1..Len(um.users)
    /\ LET listed == um.users[k]
       IN  um' = [um EXCEPT !.editingUser = Some(listed),
                            !.formName = listed.name,
                            !.formEmail = listed.email,
                            !.formPassword = "",
                            !.formRole = listed.role,
                            !.formGroupId = IF listed.groupId = Null THEN ""
                                            ELSE listed.groupId[1],
                            !.formError = Null,
                            !.isFormOpen = TRUE]
    /\ lastOp' = Op("users.openEdit", NoRow, "", <<>>)
    /\ UNCHANGED <<providerVars, sessionVars, groupVars, planVars, chatVars, umCalls>>

\* the Cancel button (disabled while isSaving): setIsFormOpen(false)
UM_cancel ==
    /\ UM_Shown
    /\ um.isFormOpen
    /\ ~um.isSaving
    /\ um' = [um EXCEPT !.isFormOpen = FALSE]
    /\ lastOp' = Op("users.cancel", NoRow, "", <<>>)
    /\ UNCHANGED <<providerVars, sessionVars, groupVars, planVars, chatVars, umCalls>>

\* the name input: setFormName(e.target.value)
UM_setFormName(name) ==
    /\ UM_Shown
    /\ um.isFormOpen
    /\ um' = [um EXCEPT !.formName = name]
    /\ lastOp' = Op("users.setFormName", NoRow, "", <<>>)
    /\ UNCHANGED <<providerVars, sessionVars, groupVars, planVars, chatVars, umCalls>>

\* the email input, rendered for a new user: setFormEmail(e.target.value)
UM_setFormEmail(email) ==
    /\ UM_Shown
    /\ um.isFormOpen
    /\ um.editingUser = Null
    /\ um' = [um EXCEPT !.formEmail = email]
    /\ lastOp' = Op("users.setFormEmail", NoRow, "", <<>>)
    /\ UNCHANGED <<providerVars, sessionVars, groupVars, planVars, chatVars, umCalls>>

\* the password input, rendered for a new user:
\* setFormPassword(e.target.value)
UM_setFormPassword(password) ==
    /\ UM_Shown
    /\ um.isFormOpen
    /\ um.editingUser = Null
    /\ um' = [um EXCEPT !.formPassword = password]
    /\ lastOp' = Op("users.setFormPassword", NoRow, "", <<>>)
    /\ UNCHANGED <<providerVars, sessionVars, groupVars, planVars, chatVars, umCalls>>

\* the role select: setFormRole(e.target.value)
UM_setFormRole(role) ==
    /\ UM_Shown
    /\ um.isFormOpen
    /\ um' = [um EXCEPT !.formRole = role]
    /\ lastOp' = Op("users.setFormRole", NoRow, "", <<>>)
    /\ UNCHANGED <<providerVars, sessionVars, groupVars, planVars, chatVars, umCalls>>

\* the group select: setFormGroupId(e.target.value)
UM_setFormGroupId(groupId) ==
    /\ UM_Shown
    /\ um.isFormOpen
    /\ um' = [um EXCEPT !.formGroupId = groupId]
    /\ lastOp' = Op("users.setFormGroupId", NoRow, "", <<>>)
    /\ UNCHANGED <<providerVars, sessionVars, groupVars, planVars, chatVars, umCalls>>

\* handleSave's checks, in their order: the text of the first that fails,
\* or Null
UM_FormError ==
    IF Trim(um.formName) = "" THEN Some("Name is required")
    ELSE IF um.editingUser = Null /\ Trim(um.formEmail) = ""
    THEN Some("Email is required")
    ELSE IF um.editingUser = Null /\ um.formPassword = ""
    THEN Some("Password is required")
    ELSE IF um.editingUser = Null /\ Len(um.formPassword) < 6
    THEN Some("Password must be at least 6 characters")
    ELSE Null

\* the request handleSave sends: PUT to the edited user, or POST
UM_SaveRequest ==
    IF um.editingUser # Null
    THEN Request("PUT", "/api/users/" \o um.editingUser[1].id,
                 Some([name |-> Trim(um.formName), role |-> um.formRole,
                       groupId |-> IF Falsy(um.formGroupId) THEN "null"
                                   ELSE um.formGroupId]))
    ELSE Request("POST", "/api/users",
                 Some([name |-> Trim(um.formName),
                       email |-> Trim(um.formEmail),
                       password |-> um.formPassword,
                       role |-> um.formRole,
                       groupId |-> IF Falsy(um.formGroupId) THEN UNDEFINED
                                   ELSE um.formGroupId]))

\* handleSave up to its await, from the form's save button (disabled while
\* isSaving)
UM_handleSave ==
    /\ UM_Shown
    /\ um.isFormOpen
    /\ ~um.isSaving
    /\ IF UM_FormError # Null
       THEN /\ um' = [um EXCEPT !.formError = UM_FormError]
            /\ UNCHANGED umCalls
       ELSE /\ UM_CallsReserved + 2 <= MaxCalls
            /\ um' = [um EXCEPT !.isSaving = TRUE, !.formError = Null]
            /\ umCalls' = Append(umCalls, Call("handleSave", UM_SaveRequest))
    /\ lastOp' = Op("users.handleSave", NoRow, "", <<>>)
    /\ UNCHANGED <<providerVars, sessionVars, groupVars, planVars, chatVars>>

\* handleSave resumes with an ok response: setIsFormOpen(false),
\* fetchData(), finally setIsSaving(false)
UM_SaveOk(i) ==
    /\ i \in UM_Awaiting("handleSave")
    /\ LET closed == [um EXCEPT !.isFormOpen = FALSE, !.isSaving = FALSE]
           done == [umCalls EXCEPT ![i] = Resolved(@)]
       IN  /\ um' = fetchData(closed, done)[1]
           /\ umCalls' = fetchData(closed, done)[2]
    /\ lastOp' = Op("users.saveOk", NoRow, "", <<>>)
    /\ UNCHANGED <<providerVars, sessionVars, groupVars, planVars, chatVars>>

\* handleSave resumes with a non-ok response (its body's message, or the
\* default text of the update or the create) or a rejection: catch
\* setFormError, finally setIsSaving(false)
UM_SaveFails(i, message) ==
    /\ i \in UM_Awaiting("handleSave")
    /\ um' = [um EXCEPT !.formError =
                            Some(IF ~Falsy(message) THEN message
                                 ELSE IF umCalls[i].request.method = "PUT"
                                 THEN "Failed to update user"
                                 ELSE "Failed to create user"),
                        !.isSaving = FALSE]
    /\ umCalls' = [umCalls EXCEPT ![i] = Rejected(@, message)]
    /\ lastOp' = Op("users.saveFails", NoRow, "", <<>>)
    /\ UNCHANGED <<providerVars, sessionVars, groupVars, planVars, chatVars>>

\* handleDelete(user) up to its await, the confirmation accepted
UM_handleDelete(k) ==
    /\ UM_Shown
    /\ k \in 1..Len(um.users)
    /\ UM_CallsReserved + 2 <= MaxCalls
    /\ umCalls' = Append(umCalls,
                         Call("handleDelete",
                              Request("DELETE", "/api/users/" \o um.users[k].id,
                                      Null)))
    /\ lastOp' = Op("users.handleDelete", NoRow, "", <<>>)
    /\ UNCHANGED <<providerVars, sessionVars, groupVars, planVars, chatVars, um>>

\* handleDelete resumes with an ok response: fetchData()
UM_DeleteOk(i) ==
    /\ i \in UM_Awaiting("handleDelete")
    /\ LET done == [umCalls EXCEPT ![i] = Resolved(@)]
       IN  /\ um' = fetchData(um, done)[1]
           /\ umCalls' = fetchData(um, done)[2]
    /\ lastOp' = Op("users.deleteOk", NoRow, "", <<>>)
    /\ UNCHANGED <<providerVars, sessionVars, groupVars, planVars, chatVars>>

\* handleDelete resumes with a non-ok response or a rejection: alert(...)
UM_DeleteFails(i) ==
    /\ i \in UM_Awaiting("handleDelete")
    /\ umCalls' = [umCalls EXCEPT ![i] = Resolved(@)]
    /\ lastOp' = Op("users.deleteFails", NoRow, "", <<>>)
    /\ UNCHANGED <<providerVars, sessionVars, groupVars, planVars, chatVars, um>>

\* the screen's life: the list's fetches, the form and its inputs, saves
\* and deletes, and their responses in any interleaving
UsersNext ==
    \/ UM_MountEffect
    \/ UM_Retry
    \/ \E i \in 1..Len(umCalls) : \E users \in UserLists :
          \E groups \in GroupInfoLists : UM_FetchDataOk(i, users, groups)
    \/ \E i \in 1..Len(umCalls) : \E message \in FetchDataMessages :
          UM_FetchDataFails(i, message)
    \/ UM_openCreate
    \/ \E k \in 1..Len(um.users) : UM_openEdit(k)
    \/ UM_cancel
    \/ \E name \in UserNames : UM_setFormName(name)
    \/ \E email \in UserEmails : UM_setFormEmail(email)
    \/ \E password \in UserPasswords : UM_setFormPassword(password)
    \/ \E role \in UserRoles : UM_setFormRole(role)
    \/ \E groupId \in UserGroupIds : UM_setFormGroupId(groupId)
    \/ UM_handleSave
    \/ \E i \in 1..Len(umCalls) : UM_SaveOk(i)
    \/ \E i \in 1..Len(umCalls) : \E message \in UserSaveMessages :
          UM_SaveFails(i, message)
    \/ \E k \in 1..Len(um.users) : UM_handleDelete(k)
    \/ \E i \in 1..Len(umCalls) : UM_DeleteOk(i)
    \/ \E i \in 1..Len(umCalls) : UM_DeleteFails(i)

\* UserManagement as constructed, in the dashboard of a signed-in user
UsersInit ==
    /\ FreshProvider
    /\ user = Some(1)
    /\ currentPath = DASHBOARD_PATH
    /\ AppIdle
    /\ currentPage = "team-users"
    /\ orphans = NoOrphans
    /\ sessions = 1
    /\ ScreensUnmounted

SpecUsers == UsersInit /\ [][UsersNext]_vars

----------------------------------------------------------------------------
(* GeminiChat: the chat widget                                             *)

\* a message of the history
Message(role, text) == [role |-> role, parts |-> <<[text |-> text]>>]

\* the texts the input is given
ChatInputs == {"", " ", "hi"}

\* data.response of an ok answer (the body may lack the field)
ChatResponses == {"hello", UNDEFINED}

\* the text shown when the request fails
CHAT_ERROR_TEXT ==
    "Sorry, I encountered an error. Please check your connection or try again later."

Chat_Awaiting ==
    { i \in 1..Len(chatCalls) : chatCalls[i].stage = "await" }

\* the floating button: setIsOpen(true)
Chat_open ==
    /\ ~chat.isOpen
    /\ chat' = [chat EXCEPT !.isOpen = TRUE]
    /\ lastOp' = Op("chat.open", NoRow, "", <<>>)
    /\ UNCHANGED <<providerVars, sessionVars, groupVars, planVars, userVars,
                   chatCalls>>

\* the card's close button: setIsOpen(false); the component stays mounted
Chat_close ==
    /\ chat.isOpen
    /\ chat' = [chat EXCEPT !.isOpen = FALSE]
    /\ lastOp' = Op("chat.close", NoRow, "", <<>>)
    /\ UNCHANGED <<providerVars, sessionVars, groupVars, planVars, userVars,
                   chatCalls>>

\* the input's onChange: setInput(e.target.value)
Chat_setInput(text) ==
    /\ chat.isOpen
    /\ text # chat.input
    /\ chat' = [chat EXCEPT !.input = text]
    /\ lastOp' = Op("chat.setInput", NoRow, "", <<>>)
    /\ UNCHANGED <<providerVars, sessionVars, groupVars, planVars, userVars,
                   chatCalls>>

\* the request handleSend sends: the input, and the history as it was before
\* the user's message
Chat_Request ==
    Request("POST", "/api/ai/chat",
            Some([message |-> chat.input, history |-> chat.messages]))

\* a variant of Chat_handleSend that does not look at isLoading
Chat_handleSend_IgnoresLoading ==
    /\ chat.isOpen
    /\ IF Falsy(Trim(chat.input))
       THEN UNCHANGED chatVars
       ELSE /\ Len(chatCalls) < MaxCalls
            /\ chat' = [chat EXCEPT
                          !.messages = Append(@, Message("user", chat.input)),
                          !.input = "",
                          !.isLoading = TRUE]
            /\ chatCalls' = Append(chatCalls, Call("handleSend", Chat_Request))
    /\ lastOp' = Op("chat.handleSend", NoRow, "", <<>>)
    /\ UNCHANGED <<providerVars, sessionVars, groupVars, planVars, userVars>>

\* handleSend up to its await, from the form's onSubmit: returns at once on
\* a blank input or while isLoading; else appends the user's message, clears
\* the input, setIsLoading(true) and sends the request
Chat_handleSend ==
    /\ chat.isOpen
    /\ IF Falsy(Trim(chat.input)) \/ chat.isLoading
       THEN UNCHANGED chatVars
       ELSE /\ Len(chatCalls) < MaxCalls
            /\ chat' = [chat EXCEPT
                          !.messages = Append(@, Message("user", chat.input)),
                          !.input = "",
                          !.isLoading = TRUE]
            /\ chatCalls' = Append(chatCalls, Call("handleSend", Chat_Request))
    /\ lastOp' = Op("chat.handleSend", NoRow, "", <<>>)
    /\ UNCHANGED <<providerVars, sessionVars, groupVars, planVars, userVars>>

\* handleSend resumes with an ok response and its parsed body: the model's
\* message is appended, finally setIsLoading(false)
Chat_ReplyOk(i, text) ==
    /\ i \in Chat_Awaiting
    /\ chat' = [chat EXCEPT !.messages = Append(@, Message("model", text)),
                            !.isLoading = FALSE]
    /\ chatCalls' = [chatCalls EXCEPT ![i] = Resolved(@)]
    /\ lastOp' = Op("chat.replyOk", NoRow, "", <<>>)
    /\ UNCHANGED <<providerVars, sessionVars, groupVars, planVars, userVars>>

\* handleSend resumes in its catch (fetch rejected, non-ok response, or a
\* body that does not parse): the fixed error text is appended as the
\* model's message, finally setIsLoading(false)
Chat_ReplyFails(i) ==
    /\ i \in Chat_Awaiting
    /\ chat' = [chat EXCEPT
                  !.messages = Append(@, Message("model", CHAT_ERROR_TEXT)),
                  !.isLoading = FALSE]
    /\ chatCalls' = [chatCalls EXCEPT ![i] = Resolved(@)]
    /\ lastOp' = Op("chat.replyFails", NoRow, "", <<>>)
    /\ UNCHANGED <<providerVars, sessionVars, groupVars, planVars, userVars>>

\* a pending chat request resolves, one way or the other
Chat_Reply ==
    \E i \in Chat_Awaiting :
        \/ \E text \in ChatResponses : Chat_ReplyOk(i, text)
        \/ Chat_ReplyFails(i)

ChatNext ==
    \/ Chat_open
    \/ Chat_close
    \/ \E text \in ChatInputs : Chat_setInput(text)
    \/ Chat_handleSend
    \/ Chat_Reply

\* the widget as constructed, beside the auth page of a visitor
ChatInit == SessionInit

SpecChat == ChatInit /\ [][ChatNext]_vars

\* every request sent is answered or fails: a pending handleSend resumes
FairSpecChat == SpecChat /\ WF_vars(Chat_Reply)

----------------------------------------------------------------------------
(* The three admin screens, one of them rendered                            *)

AdminPages == {"team-users", "team-groups", "subscription-plans"}

\* the location hashes of the model: the three screens' and one that
\* renderContent sends to its default branch
Pages == AdminPages \cup {"dashboard"}

\* hashchange: setCurrentPage(window.location.hash.slice(1) || "dashboard").
\* renderContent then renders the screen of the new page: the screen that
\* was rendered is unmounted, and a screen starts from its useState values.
handleHashChange(page) ==
    /\ Mounted
    /\ page \in Pages
    /\ page # currentPage
    /\ currentPage' = page
    /\ gm' = GroupManagementInit
    /\ gmCalls' = <<>>
    /\ pm' = PlanManagementInit
    /\ pmCalls' = <<>>
    /\ um' = UserManagementInit
    /\ umCalls' = <<>>
    /\ lastOp' = Op("handleHashChange", NoRow, "", <<>>)
    /\ UNCHANGED <<providerVars, user, currentPath, isSigningOut, uncaught,
                   orphans, sessions, chatVars>>

\* the dashboard of a signed-in user, loaded without a hash
PagesInit ==
    /\ FreshProvider
    /\ user = Some(1)
    /\ currentPath = DASHBOARD_PATH
    /\ AppIdle
    /\ currentPage = "dashboard"
    /\ orphans = NoOrphans
    /\ sessions = 1
    /\ ScreensUnmounted

\* the permission store loads while the user moves between the pages
PagesNext ==
    \/ MountedProviderNext
    \/ \E page \in Pages : handleHashChange(page)

SpecPages == PagesInit /\ [][PagesNext]_vars

\* the dashboard of a signed-in user, loaded at the hash of an admin screen
AdminInit ==
    /\ FreshProvider
    /\ user = Some(1)
    /\ currentPath = DASHBOARD_PATH
    /\ AppIdle
    /\ currentPage \in AdminPages
    /\ orphans = NoOrphans
    /\ sessions = 1
    /\ ScreensUnmounted

\* the life of the screen that is rendered
AdminNext ==
    \/ GroupsNext
    \/ PlanScreenNext
    \/ UsersNext

SpecAdmin == AdminInit /\ [][AdminNext]_vars

----------------------------------------------------------------------------
(* Vocabulary of the properties                                            *)

\* the (mainMenu, subMenu) arguments the properties range over: every name a
\* response may use, a master-list pair no response names, and the empty string
QueryMains == MainNames \cup {"Settings"}

QuerySubs == SubNames \cup {"General", ""}

\* the pairs of the master list
CatalogPairs ==
    UNION { { <<ALL_MENU_ITEMS[k].title, ALL_MENU_ITEMS[k].items[j].title>> :
                j \in 1..Len(ALL_MENU_ITEMS[k].items) }
            : k \in 1..Len(ALL_MENU_ITEMS) }

AdminLoaded == data # Null /\ data[1].role = "admin"

NonAdminLoaded == data # Null /\ data[1].role = "user"

\* the positions <<i, j>> of the stored sub-menu entries of the pair (M, S)
RecordsOf(M, S) ==
    IF data = Null THEN {}
    ELSE UNION { { <<i, j>> : j \in { x \in 1..Len(data[1].menus[i].sub_menu) :
                                       data[1].menus[i].sub_menu[x].menu_name = S } }
                 : i \in { y \in 1..Len(data[1].menus) :
                            data[1].menus[y].main_menu = M } }

HasRecord(M, S) == RecordsOf(M, S) # {}

RecordFlags(M, S) ==
    { data[1].menus[r[1]].sub_menu[r[2]].permissions : r \in RecordsOf(M, S) }

----------------------------------------------------------------------------
(* C1: whenever the store holds data whose role is admin, hasMenuAccess(M) *)
(* and hasMenuAccess(M,S) are true and getPermissions(M,S) is all-true for *)
(* every (M,S), including pairs absent from the stored menus.              *)
C1_AdminOverride ==
    AdminLoaded =>
        \A M \in QueryMains :
            /\ hasMenuAccess(M, UNDEFINED)
            /\ \A S \in QuerySubs :
                /\ hasMenuAccess(M, S)
                /\ getPermissions(M, S) = ALL_PERMISSIONS

\* an admin whose stored menus name something, but not Team/Users
C1_Witness ==
    /\ AdminLoaded
    /\ Len(data[1].menus) > 0
    /\ ~HasRecord("Team", "Users")
    /\ hasMenuAccess("Team", "Users")
    /\ getPermissions("Team", "Users") = ALL_PERMISSIONS

(* C2: in every state where data is null (before the first fetch completes *)
(* or after a failed one) isAdmin is false, hasMenuAccess is false for     *)
(* every (M) and (M,S), and getPermissions is all-false for every (M,S).   *)
C2_NoDataNoAccess ==
    data = Null =>
        /\ ~isAdmin
        /\ \A M \in QueryMains :
            /\ ~hasMenuAccess(M, UNDEFINED)
            /\ \A S \in QuerySubs :
                /\ ~hasMenuAccess(M, S)
                /\ getPermissions(M, S) = NO_PERMISSIONS

\* a refetch has failed after an earlier fetch had completed
C2_Witness ==
    /\ data = Null
    /\ lastResult.kind \in {"notOk", "throw"}
    /\ lastResult.id > 1
    /\ \E i \in 1..Len(calls) : i # lastResult.id /\ calls[i] = "done"
    /\ ~hasMenuAccess("Team", "Users")

(* C3: for a non-admin user with data loaded, hasMenuAccess(M,S) with a    *)
(* sub-menu argument is true iff some stored entry has main_menu = M and   *)
(* contains a sub-item with menu_name = S, for every stored menus list     *)
(* (repeated main-menu names included) and every string S.                 *)
C3_SubMenuAccessIffPairStored ==
    NonAdminLoaded =>
        \A M \in QueryMains : \A S \in QuerySubs :
            hasMenuAccess(M, S) <=> HasRecord(M, S)

(* C4: for a non-admin user with data loaded, getPermissions(M,S) returns  *)
(* the stored flags of the sub-menu entry (M,S) when that entry exists and *)
(* all-false when it does not.                                             *)
C4_StoredFlagsOfPair ==
    NonAdminLoaded =>
        \A M \in QueryMains : \A S \in QuerySubs :
            IF HasRecord(M, S)
            THEN getPermissions(M, S) \in RecordFlags(M, S)
            ELSE getPermissions(M, S) = NO_PERMISSIONS

C7_FetchOutcome ==
    [][ \A i \in 1..Len(calls) :
          (calls[i] # "done" /\ calls'[i] = "done") =>
              /\ lastResult'.id = i
              /\ ~isLoading'
              /\ lastResult'.kind = "ok" =>
                    (lastResult'.payload # Null /\ data' = lastResult'.payload)
              /\ lastResult'.kind # "ok" =>
                    (data' = Null /\ FilteredMenuItems' = <<>>) ]_vars

\* a refetch has failed after the first fetch had completed, nothing pending
C7_Witness ==
    /\ Len(calls) > 1
    /\ \A i \in 1..Len(calls) : calls[i] = "done"
    /\ lastResult.id > 1
    /\ lastResult.kind = "throw"
    /\ data = Null
    /\ ~isLoading
    /\ FilteredMenuItems = <<>>

\* the indexes of the master list, and of an entry's sub-items
CatalogIdx == 1..Len(ALL_MENU_ITEMS)

\* the sub-item titles of master-list entry k the user may access
AccessibleSubs(k) ==
    { ALL_MENU_ITEMS[k].items[j].title : j \in
        { x \in 1..Len(ALL_MENU_ITEMS[k].items) :
            hasMenuAccess(ALL_MENU_ITEMS[k].title, ALL_MENU_ITEMS[k].items[x].title) } }

(* C8: for a non-admin user when not loading, the sidebar keeps a catalog  *)
(* main-menu entry exactly when hasMenuAccess(mainMenu) is true and some   *)
(* catalog sub-item of it satisfies hasMenuAccess(mainMenu, subItem); a    *)
(* kept entry contains exactly the catalog sub-items that satisfy it, and  *)
(* no entry with zero sub-items is produced.                               *)
C8_SidebarKeepsAccessible ==
    (~isLoading /\ ~AdminLoaded) =>
        LET out == FilteredMenuItems
            Kept == { k \in CatalogIdx :
                        /\ hasMenuAccess(ALL_MENU_ITEMS[k].title, UNDEFINED)
                        /\ AccessibleSubs(k) # {} }
        IN  /\ Len(out) = Cardinality(Kept)
            /\ \A k \in CatalogIdx :
                  k \in Kept <=> \E e \in 1..Len(out) :
                                    out[e].title = ALL_MENU_ITEMS[k].title
            /\ \A e \in 1..Len(out) :
                  /\ Len(out[e].items) > 0
                  /\ \A k \in CatalogIdx :
                        out[e].title = ALL_MENU_ITEMS[k].title =>
                            /\ { out[e].items[x].title : x \in 1..Len(out[e].items) }
                                  = AccessibleSubs(k)
                            /\ Len(out[e].items) = Cardinality(AccessibleSubs(k))

\* a non-admin who has Team as a main menu but none of its catalog sub-items
\* (Team is dropped), and who keeps Dashboard
C8_Witness ==
    /\ ~isLoading
    /\ NonAdminLoaded
    /\ hasMenuAccess("Team", UNDEFINED)
    /\ ~hasMenuAccess("Team", "Users")
    /\ ~hasMenuAccess("Team", "Groups")
    /\ Len(FilteredMenuItems) = 1
    /\ FilteredMenuItems[1].title = "Dashboard"

\* xs is ys with some elements left out, the others in their order
RECURSIVE IsSubsequence(_, _)
IsSubsequence(xs, ys) ==
    IF xs = <<>> THEN TRUE
    ELSE IF ys = <<>> THEN FALSE
    ELSE IF Head(xs) = Head(ys) THEN IsSubsequence(Tail(xs), Tail(ys))
    ELSE IsSubsequence(xs, Tail(ys))

\* the titles of a sequence of entries or sub-items
Titles(s) == [i \in 1..Len(s) |-> s[i].title]

(* C9: in every reachable state and for every stored payload the sidebar   *)
(* menu sequence is an order-preserving subsequence of the menu catalog at *)
(* both levels: no main menu or sub-item absent from the catalog, no       *)
(* reordering of main menus or of sibling sub-items.                       *)
C9_SidebarSubsequenceOfCatalog ==
    LET out == FilteredMenuItems
    IN  /\ IsSubsequence(Titles(out), Titles(ALL_MENU_ITEMS))
        /\ \A e \in 1..Len(out) :
              \E k \in CatalogIdx :
                  /\ out[e].title = ALL_MENU_ITEMS[k].title
                  /\ IsSubsequence(Titles(out[e].items),
                                   Titles(ALL_MENU_ITEMS[k].items))

\* a non-admin whose stored menus come in the reverse of the catalog order,
\* and both are shown in catalog order
C9_Witness ==
    /\ ~isLoading
    /\ NonAdminLoaded
    /\ Len(data[1].menus) = 2
    /\ data[1].menus[1].main_menu = "Team"
    /\ data[1].menus[2].main_menu = "Dashboard"
    /\ Titles(FilteredMenuItems) = <<"Dashboard", "Team">>

(* C10: for an admin when not loading, the sidebar produces every catalog  *)
(* main-menu entry with all of its catalog sub-items, and the only entry   *)
(* marked initially expanded (isActive) is the one titled "Dashboard".     *)
C10_AdminSidebarIsCatalog ==
    (~isLoading /\ AdminLoaded) =>
        LET out == FilteredMenuItems
        IN  /\ Titles(out) = Titles(ALL_MENU_ITEMS)
            /\ \A k \in CatalogIdx :
                  /\ Titles(out[k].items) = Titles(ALL_MENU_ITEMS[k].items)
                  /\ \A j \in 1..Len(out[k].items) :
                        out[k].items[j].url = "#" \o ALL_MENU_ITEMS[k].items[j].url
            /\ { k \in CatalogIdx : out[k].isActive }
                  = { k \in CatalogIdx : ALL_MENU_ITEMS[k].title = "Dashboard" }
            /\ Cardinality({ k \in CatalogIdx : out[k].isActive }) = 1

\* an admin with no stored menus at all sees the ten catalog entries
C10_Witness ==
    /\ ~isLoading
    /\ AdminLoaded
    /\ data[1].menus = <<>>
    /\ Len(FilteredMenuItems) = 10
    /\ FilteredMenuItems[9].title = "Team"
    /\ Len(FilteredMenuItems[9].items) = 2

----------------------------------------------------------------------------
(* C11: whenever isLoading is true the sidebar's menu sequence is empty,   *)
(* whatever data the store holds, admin data of an earlier fetch included. *)
C11_LoadingSidebarEmpty ==
    isLoading => FilteredMenuItems = <<>>

\* a refetch is outstanding while the admin data of an earlier fetch is stored
C11_Witness ==
    /\ isLoading
    /\ AdminLoaded
    /\ \E i \in 1..Len(calls) : calls[i] = "done"
    /\ \E i \in 1..Len(calls) : calls[i] # "done"
    /\ FilteredMenuItems = <<>>

(* C12: over any interleaving of fetchPermissions calls and their          *)
(* responses, the stored data never changes while isLoading is false (no   *)
(* direct ready-to-ready transition) and isLoading is true whenever a      *)
(* fetch is outstanding.                                                   *)
C12_StoreStateMachine ==
    [][ /\ ~isLoading => data' = data
        /\ (\E i \in 1..Len(calls') : calls'[i] # "done") => isLoading' ]_vars

\* the data an invocation's outcome r stores
ResolvedData(r) == IF r.kind = "ok" THEN r.payload ELSE Null

(* C13: when two fetchPermissions() calls overlap, the store's final data  *)
(* is that of whichever response resolved last, whatever the order the     *)
(* requests were issued in, and once both have resolved isLoading is false.*)
C13_LastResolvedWins ==
    (Len(calls) >= 2 /\ \A i \in 1..Len(calls) : calls[i] = "done") =>
        /\ ~isLoading
        /\ data = ResolvedData(lastResult)

\* the first call resolved after the second: the older request's payload is
\* what the store ends with
C13_Witness ==
    /\ Len(calls) = 2
    /\ \A i \in 1..Len(calls) : calls[i] = "done"
    /\ lastResult.id = 1
    /\ lastResult.kind = "ok"
    /\ data = lastResult.payload
    /\ ~isLoading

(* C14: once the session user becomes null the permission store of that    *)
(* session is discarded; after any later sign-in the store starts from     *)
(* data = null, isLoading = true, and it never holds a role or menus       *)
(* fetched for an earlier session, even when a fetch of the earlier        *)
(* session resolves afterwards.                                            *)
C14_SessionScoped ==
    /\ ~Mounted => FreshProvider
    /\ (Mounted /\ calls = <<>>) => (data = Null /\ isLoading)
    /\ data # Null =>
          /\ user # Null
          /\ lastResult.session = user[1]
          /\ lastResult.kind = "ok"
          /\ data = lastResult.payload

\* the second session's provider holds what its own fetch returned, after an
\* invocation of the first session resolved during the second session
C14_Witness ==
    /\ Mounted
    /\ user = Some(2)
    /\ orphans[1].resolvedLate > 0
    /\ data # Null
    /\ lastResult.session = 2
    /\ ~isLoading

----------------------------------------------------------------------------
(* The permission matrix                                                   *)

\* the records of the row's pair, in list order
RecordsOfPair(permissions, row) ==
    LET OfPair(p) == Matches(p, row.mainMenu, row.subMenu)
    IN  SelectSeq(permissions, OfPair)

\* the record the matrix shows for the row (permMap's), Null if none
ShownRecord(permissions, row) ==
    PermMapGet(permissions, PermKey(row.mainMenu, row.subMenu))

\* presence and the three flags of the row's pair
PairState(permissions, row) ==
    LET shown == ShownRecord(permissions, row)
    IN  IF shown = Null THEN Null
        ELSE Some(<<shown[1].canAdd, shown[1].canChange, shown[1].canDelete>>)

C16_ToggleAllGrantsOrRevokes ==
    lastOp.op = "toggleAll" =>
        LET old == ShownRecord(lastOp.before, lastOp.row)
        IN  IF old # Null /\ AllTrue(old[1])
            THEN RecordsOfPair(gm.formPermissions, lastOp.row) = <<>>
            ELSE RecordsOfPair(gm.formPermissions, lastOp.row) =
                    <<RowRecord(lastOp.row, TRUE, TRUE, TRUE)>>

\* toggleAll has replaced a record with a false flag, beside another pair's
\* record
C16_Witness ==
    /\ lastOp.op = "toggleAll"
    /\ Len(lastOp.before) >= 2
    /\ ShownRecord(lastOp.before, lastOp.row) # Null
    /\ ~AllTrue(ShownRecord(lastOp.before, lastOp.row)[1])
    /\ Len(gm.formPermissions) = Len(lastOp.before)
    /\ gm.formPermissions[Len(gm.formPermissions)] =
          RowRecord(lastOp.row, TRUE, TRUE, TRUE)

C18_ToggleAllTwiceRestores ==
    lastOp.op = "toggleAll" =>
        PairState(toggleAll(gm.formPermissions, lastOp.row.mainMenu,
                            lastOp.row.subMenu, lastOp.row.url), lastOp.row)
            = PairState(lastOp.before, lastOp.row)

(* C18 as amended: toggleAll applied twice returns the record state of     *)
(* (M,S) to what it was when the pair had no record or all three flags     *)
(* true; a pair whose record had a false flag ends with no record.         *)
C18_ToggleAllTwiceFromFullOrNone ==
    lastOp.op = "toggleAll" =>
        LET old == PairState(lastOp.before, lastOp.row)
            twice == PairState(toggleAll(gm.formPermissions, lastOp.row.mainMenu,
                                         lastOp.row.subMenu, lastOp.row.url),
                               lastOp.row)
        IN  IF old = Null \/ old = Some(<<TRUE, TRUE, TRUE>>)
            THEN twice = old
            ELSE twice = Null

\* toggleAll has revoked a fully granted pair that was not last in the list:
\* the second application grants it again, at the end of the list
C18_Witness ==
    /\ lastOp.op = "toggleAll"
    /\ PairState(lastOp.before, lastOp.row) = Some(<<TRUE, TRUE, TRUE>>)
    /\ PairState(gm.formPermissions, lastOp.row) = Null
    /\ Len(gm.formPermissions) >= 1
    /\ toggleAll(gm.formPermissions, lastOp.row.mainMenu,
                 lastOp.row.subMenu, lastOp.row.url) # lastOp.before

(* C19: no toggle or toggleAll issues a backend request or changes the     *)
(* loaded groups list; the only request carrying permissions is the one    *)
(* issued by the group form's save, and its body holds the entire current  *)
(* working copy of permission records.                                     *)
C19_MatrixEditsLocal ==
    [][ /\ lastOp'.op \in {"toggle", "toggleAll"} =>
              /\ gmCalls' = gmCalls
              /\ gm'.groups = gm.groups
        /\ \A i \in 1..Len(gmCalls') :
              (i > Len(gmCalls) /\ gmCalls'[i].request.body # Null) =>
                  /\ lastOp'.op = "handleSave"
                  /\ gmCalls'[i].fn = "handleSave"
                  /\ gmCalls'[i].request.method \in {"POST", "PUT"}
                  /\ gmCalls'[i].request.body[1].permissions = gm.formPermissions
      ]_vars

\* a save of an edited group is pending: the matrix has added a record, and
\* the body carries it together with the record that was not touched
C19_Witness ==
    \E i \in Awaiting("handleSave") :
        LET sent == gmCalls[i].request.body[1].permissions
        IN  /\ gm.editingGroup # Null
            /\ gmCalls[i].request.method = "PUT"
            /\ sent = gm.formPermissions
            /\ Len(sent) = Len(gm.editingGroup[1].permissions) + 1
            /\ \A k \in 1..Len(gm.editingGroup[1].permissions) :
                  sent[k] = gm.editingGroup[1].permissions[k]
            /\ gm.groups # <<>>

----------------------------------------------------------------------------
(* The plan form                                                           *)

\* what handleSave reads from the three inputs
PM_Parsed ==
    [fromRooms |-> parseInt(pm.formFromRooms, 10),
     toRooms |-> parseInt(pm.formToRooms, 10),
     ratePerRoom |-> parseFloat(pm.formRatePerRoom)]

\* all three are numbers, with fromRooms >= 1, toRooms >= fromRooms and
\* ratePerRoom >= 0
PM_InputsValid ==
    /\ ~isNaN(PM_Parsed.fromRooms)
    /\ ~isNaN(PM_Parsed.toRooms)
    /\ ~isNaN(PM_Parsed.ratePerRoom)
    /\ PM_Parsed.fromRooms[1] >= 1
    /\ PM_Parsed.toRooms[1] >= PM_Parsed.fromRooms[1]
    /\ PM_Parsed.ratePerRoom[1].num >= 0

(* C20: the plan save action issues a request if and only if the parsed    *)
(* inputs are all numbers with fromRooms >= 1, toRooms >= fromRooms and     *)
(* ratePerRoom >= 0; otherwise no request is sent and the form error is     *)
(* set (fromRooms = 5 with toRooms = 3 gives "To rooms must be >= From      *)
(* rooms"); an accepted create sends a POST to /api/plans whose body is     *)
(* exactly the three parsed values.                                         *)
C20_PlanSaveIffValid ==
    [][ lastOp'.op = "plans.handleSave" =>
          LET sent == Len(pmCalls') = Len(pmCalls) + 1
          IN  /\ sent <=> PM_InputsValid
              /\ ~PM_InputsValid => pmCalls' = pmCalls /\ pm'.formError # Null
              /\ PM_Parsed.fromRooms = Some(5) /\ PM_Parsed.toRooms = Some(3)
                    => pm'.formError = Some("To rooms must be >= From rooms")
              /\ sent /\ pm.editingPlan = Null
                    => pmCalls' =
                         Append(pmCalls,
                                Call("handleSave",
                                     Request("POST", "/api/plans",
                                             Some([fromRooms |-> PM_Parsed.fromRooms[1],
                                                   toRooms |-> PM_Parsed.toRooms[1],
                                                   ratePerRoom |-> PM_Parsed.ratePerRoom[1]]))))
      ]_vars

\* a create was sent with 1, 10 and 59.99 and is awaited
C20_Witness ==
    /\ lastOp.op = "plans.handleSave"
    /\ pm.isSaving
    /\ pm.formError = Null
    /\ pmCalls # <<>>
    /\ pmCalls[Len(pmCalls)] =
          Call("handleSave",
               Request("POST", "/api/plans",
                       Some([fromRooms |-> 1, toRooms |-> 10,
                             ratePerRoom |-> Decimal(5999, 2)])))

----------------------------------------------------------------------------
(* The admin screens' mutations                                            *)

SaveRejections == {"saveFails", "plans.saveFails", "users.saveFails"}

DeleteRejections ==
    {"deleteFails", "plans.deleteFails", "plans.bulkDeleteFails",
     "users.deleteFails"}

\* the calls that have resumed between the logs `before` and `after`
Resumed(before, after) ==
    { i \in 1..Len(before) : before[i].stage = "await" /\ after[i].stage = "done" }

\* the form `form` is open and shows the message of the save that was
\* rejected between `before` and `after` (some text when the rejection names
\* none)
ShowsRejection(form, before, after) ==
    \A i \in Resumed(before, after) :
        /\ form.isFormOpen
        /\ form.formError # Null
        /\ ~Falsy(after[i].response[1]) => form.formError = after[i].response

(* C21: when the backend rejects a create, update or delete on the plans,   *)
(* groups or users screen, the screen's list is left as it was and no       *)
(* request (so no list refetch) is issued; after a rejected save the form   *)
(* is open and shows the backend's message.                                 *)
C21_RejectionLeavesList ==
    [][ lastOp'.op \in SaveRejections \cup DeleteRejections =>
          /\ gm'.groups = gm.groups
          /\ pm'.plans = pm.plans
          /\ um'.users = um.users
          /\ Len(gmCalls') = Len(gmCalls)
          /\ Len(pmCalls') = Len(pmCalls)
          /\ Len(umCalls') = Len(umCalls)
          /\ lastOp'.op \in SaveRejections =>
                /\ ShowsRejection(gm', gmCalls, gmCalls')
                /\ ShowsRejection(pm', pmCalls, pmCalls')
                /\ ShowsRejection(um', umCalls, umCalls')
      ]_vars

\* the update of a listed plan was rejected: the form is open with the
\* backend's message, the list is loaded and nothing is being fetched
C21_Witness ==
    /\ lastOp.op = "plans.saveFails"
    /\ pm.plans # <<>>
    /\ pm.editingPlan # Null
    /\ pm.isFormOpen
    /\ pm.formError = Some("Plan range overlaps an existing plan")
    /\ PM_Awaiting("fetchPlans") = {}

BulkDeleteCall(ids) ==
    Call("handleBulkDelete",
         Request("POST", "/api/plans/bulk-delete", Some([ids |-> ids])))

(* C23: a bulk delete issues no request (empty selection, or confirmation  *)
(* declined) or exactly one batch-delete request, whose ids are exactly    *)
(* the selected ids, and no second one while that one is pending; on       *)
(* success the selection becomes empty and the list is refetched; on       *)
(* failure the selection is kept and nothing is refetched.                 *)
C23_BulkDelete ==
    [][ /\ lastOp'.op = "plans.handleBulkDelete" =>
              \/ pmCalls' = pmCalls /\ pm' = pm
              \/ /\ pm.selectedIds # {}
                 /\ PM_Awaiting("handleBulkDelete") = {}
                 /\ pmCalls' = Append(pmCalls, BulkDeleteCall(pm.selectedIds))
        /\ lastOp'.op = "plans.bulkDeleteOk" =>
              /\ pm'.selectedIds = {}
              /\ Len(pmCalls') = Len(pmCalls) + 1
              /\ pmCalls'[Len(pmCalls')] =
                    Call("fetchPlans", Request("GET", "/api/plans", Null))
        /\ lastOp'.op = "plans.bulkDeleteFails" =>
              /\ pm'.selectedIds = pm.selectedIds
              /\ Len(pmCalls') = Len(pmCalls)
      ]_vars

\* a bulk delete of both listed plans has succeeded: nothing is selected
\* and the list is being fetched again
C23_Witness ==
    /\ lastOp.op = "plans.bulkDeleteOk"
    /\ Len(pm.plans) = 2
    /\ pm.selectedIds = {}
    /\ pm.isLoading
    /\ PM_Awaiting("fetchPlans") # {}
    /\ PM_Awaiting("handleBulkDelete") = {}

(***************************************************************************)
(* Failures of backend and auth requests                                   *)
(***************************************************************************)

(* C24: every failure of a backend or auth request (fetch, save, delete,   *)
(* bulk delete, sign-out) is caught inside the function that issued it:    *)
(* no rejection escapes from any of them.                                  *)
C24_NoFailureEscapes == uncaught = {}

(***************************************************************************)
(* Who sees the admin screens                                              *)
(***************************************************************************)

(* C25: the User, Group and Plan screens are admin only: whatever the      *)
(* location hash, one of them is rendered only if the Permission Store of  *)
(* the current session reports isAdmin.                                    *)
C25_AdminScreensAdminOnly ==
    \A page \in AdminPages : Rendered(page) => isAdmin

(***************************************************************************)
(* The working copy as a whole                                             *)
(***************************************************************************)

\* at most one record per (mainMenu, subMenu)
UniquePairs(permissions) ==
    \A j, k \in 1..Len(permissions) :
        Matches(permissions[j], permissions[k].mainMenu, permissions[k].subMenu)
            => j = k

(* C26: a working copy with at most one record per (mainMenu, subMenu)     *)
(* still has at most one record per pair after a toggle or a toggleAll,    *)
(* and so after any sequence of them.                                      *)
C26_PairsStayUnique ==
    (lastOp.op \in {"toggle", "toggleAll"} /\ UniquePairs(lastOp.before))
        => UniquePairs(gm.formPermissions)

\* a toggle on a pair that had a record, in a working copy that holds one
\* record of each of two pairs
C26_Witness ==
    /\ lastOp.op = "toggle"
    /\ UniquePairs(lastOp.before)
    /\ Len(lastOp.before) = 2
    /\ ShownRecord(lastOp.before, lastOp.row) # Null
    /\ Len(gm.formPermissions) = 2
    /\ gm.formPermissions # lastOp.before

(* C27: toggle(M,S,...) and toggleAll(M,S,...) leave the records of every  *)
(* other pair as they were: the same records, with the same flags and url, *)
(* in the same relative order.                                             *)
C27_OtherPairsUnchanged ==
    lastOp.op \in {"toggle", "toggleAll"} =>
        WithoutPair(gm.formPermissions, lastOp.row.mainMenu, lastOp.row.subMenu)
            = WithoutPair(lastOp.before, lastOp.row.mainMenu, lastOp.row.subMenu)

\* toggleAll has moved the pair's record from the head of the list to its
\* end, past the record of another pair
C27_Witness ==
    /\ lastOp.op = "toggleAll"
    /\ Len(lastOp.before) = 2
    /\ Matches(lastOp.before[1], lastOp.row.mainMenu, lastOp.row.subMenu)
    /\ ~Matches(lastOp.before[2], lastOp.row.mainMenu, lastOp.row.subMenu)
    /\ Len(gm.formPermissions) = 2
    /\ gm.formPermissions[1] = lastOp.before[2]

(***************************************************************************)
(* The selection of the plan list                                          *)
(***************************************************************************)

\* the ids of the plans in the loaded list
ListedIds == { pm.plans[k].id : k \in 1..Len(pm.plans) }

\* the header checkbox: checked={plans.length > 0 &&
\* selectedIds.size === plans.length}
SelectAllChecked ==
    Len(pm.plans) > 0 /\ Cardinality(pm.selectedIds) = Len(pm.plans)

(* C28: on the plan screen, after any sequence of row selection,           *)
(* select-all, single delete, bulk delete and list refetch, every selected *)
(* id is the id of a plan in the loaded list; so the header checkbox is    *)
(* checked exactly when every listed plan is selected, and a bulk delete   *)
(* never sends an id that is no longer listed.                             *)
C28_SelectionIsListed ==
    /\ pm.selectedIds \subseteq ListedIds
    /\ SelectAllChecked <=> (Len(pm.plans) > 0 /\ ListedIds \subseteq pm.selectedIds)
    /\ \A i \in PM_Awaiting("handleBulkDelete") :
          pmCalls[i].request.body[1].ids \subseteq ListedIds

(***************************************************************************)
(* A save and the form it was submitted from                               *)
(***************************************************************************)

\* the save request `request` was submitted from the form that is open on
\* `editing`: a PUT to the record under edit, or a POST from the create form
SubmittedFrom(request, editing, base) ==
    IF editing # Null
    THEN request.method = "PUT" /\ request.url = base \o "/" \o editing[1].id
    ELSE request.method = "POST"

\* the saves among the calls of `before` that resume in `after`
ResumedSaves(before, after) ==
    { i \in Resumed(before, after) : before[i].fn = "handleSave" }

(* C29: the outcome of a save is applied only to the form it was submitted *)
(* from: when a save resolves while the form is open on another record     *)
(* (opened for editing while the save was pending), that form is neither   *)
(* closed nor given the save's error.                                      *)
C29_SaveOutcomeOnItsForm ==
    [][ /\ \A i \in ResumedSaves(pmCalls, pmCalls') :
              ~SubmittedFrom(pmCalls[i].request, pm.editingPlan, "/api/plans")
                  => /\ pm'.isFormOpen = pm.isFormOpen
                     /\ pm'.formError = pm.formError
        /\ \A i \in ResumedSaves(gmCalls, gmCalls') :
              ~SubmittedFrom(gmCalls[i].request, gm.editingGroup, "/api/groups")
                  => /\ gm'.isFormOpen = gm.isFormOpen
                     /\ gm'.formError = gm.formError
        /\ \A i \in ResumedSaves(umCalls, umCalls') :
              ~SubmittedFrom(umCalls[i].request, um.editingUser, "/api/users")
                  => /\ um'.isFormOpen = um.isFormOpen
                     /\ um'.formError = um.formError
      ]_vars

(***************************************************************************)
(* The chat widget                                                         *)
(***************************************************************************)

\* the history alternates user, model, ... starting with user
Alternates(messages) ==
    \A k \in 1..Len(messages) :
        messages[k].role = IF k % 2 = 1 THEN "user" ELSE "model"

====
